---- MODULE Spec2Model ----
(***************************************************************************)
(* Model of the NovelAI conversation client (package novelai).             *)
(*                                                                         *)
(* Strings that the code trims, concatenates or measures are sequences of  *)
(* one-character strings; stop reasons, roles, header values and error     *)
(* messages, which the code only compares or passes on, are TLA+ strings.  *)
(***************************************************************************)
EXTENDS Integers, Sequences, FiniteSets, TLC

VARIABLES
    pc,         \* where the operation in progress stands: "idle", "call", "http"
                \* or, while parseSSEStream reads the response, "stream"
    System,     \* Conversation.System
    Messages,   \* Conversation.Messages
    Usage,      \* Conversation.Usage
    ApiToken,   \* Conversation.ApiToken
    Settings,   \* Conversation.Settings (Model, Thinking, ThinkFormat)
    op,         \* the public operation in progress, "idle" when none
    input,      \* the text handed to the underlying Send/SendStreaming in progress
    attempt,    \* the retry loop's attempt counter
    httpReq,    \* the request object the next HttpClient.Do will be given
    loop,       \* locals of SendUntilDone/SendStreamingUntilDone
    ret,        \* what the last public operation returned
    pre,        \* observation: the operation's argument, history and usage at its start
    sent,       \* observation: the requests given to HttpClient.Do in the current underlying call
    calls,      \* observation: one record per underlying call of the current operation
    cblog,      \* observation: the callback invocations of the current operation
    ctx,        \* the cancellation signal attached to the Conversation: "none",
                \* "live" or "cancelled"
    sse,        \* a stream under parseSSEStream on its own: the lines read, the
                \* reader's and the caller's side, and the result
    lastPrompt, \* what the prompt formatter returned when it was the last
                \* operation, the empty sequence otherwise
    scanned,    \* the lines of the response scanner.Scan() has handed to the
                \* loop of the parseSSEStream in progress, 0 when there is none
    callers     \* the locals of the callers whose Send calls on the Conversation
                \* may overlap, one record per caller

vars == <<System, Messages, Usage, ApiToken, Settings, op, pc, input, attempt,
          httpReq, loop, ret, pre, sent, calls, cblog, ctx, sse, lastPrompt, callers, scanned>>

conv == <<System, Messages, Usage, ApiToken, Settings>>

-----------------------------------------------------------------------------
(* Bounds of the model *)

\* most "length" answers the provider gives in a row inside one loop
MaxConts == 2
\* an operation that calls the provider starts only below this cumulative usage
MaxUsage == 2
\* AddMessage is called only on a history of at most this size (one per entry
\* plus one per character of content)
MaxSize == 6
\* an operation that calls the provider starts only on a history of at most this size
MaxStart == 4
\* a stream handed to parseSSEStream on its own has at most this many lines
\* before a line is inserted into it
MaxLines == 3

-----------------------------------------------------------------------------
(* Program constants *)

retries == 3

glmPrefix == "[gMASK]<sop>"
glmSystem == "<|system|>"
glmUser == "<|user|>"
glmAssistant == "<|assistant|>"
glmNoThink == "/nothink"

StatusOK == 200

-----------------------------------------------------------------------------
(* Strings *)

\* the cutset " \t\n\r" that MergeIfLastTwoAssistant gives strings.TrimRight
TrimRightCutset == {" ", "\t", "\n", "\r"}

\* characters that have no escape here stand as one piece under their code
\* point: the vertical tab, the next line and the no-break space
VT == "U+000B"
NEL == "U+0085"
NBSP == "U+00A0"

\* unicode.IsSpace: '\t', '\n', '\v', '\f', '\r', ' ', U+0085, U+00A0 and
\* the characters of the property White_Space above Latin-1
IsSpace(ch) ==
    ch \in {" ", "\t", "\n", VT, "\f", "\r", NEL, NBSP,
            "U+1680", "U+2000", "U+2001", "U+2002", "U+2003", "U+2004", "U+2005",
            "U+2006", "U+2007", "U+2008", "U+2009", "U+200A", "U+2028", "U+2029",
            "U+202F", "U+205F", "U+3000"}

RECURSIVE TrimRight(_, _)
TrimRight(s, cutset) ==
    IF s = <<>> THEN <<>>
    ELSE IF s[Len(s)] \in cutset THEN TrimRight(SubSeq(s, 1, Len(s) - 1), cutset)
    ELSE s

RECURSIVE TrimLeftSpace(_)
TrimLeftSpace(s) ==
    IF s = <<>> THEN <<>>
    ELSE IF IsSpace(Head(s)) THEN TrimLeftSpace(Tail(s))
    ELSE s

RECURSIVE TrimRightSpace(_)
TrimRightSpace(s) ==
    IF s = <<>> THEN <<>>
    ELSE IF IsSpace(s[Len(s)]) THEN TrimRightSpace(SubSeq(s, 1, Len(s) - 1))
    ELSE s

TrimSpace(s) == TrimRightSpace(TrimLeftSpace(s))

-----------------------------------------------------------------------------
(* Conversation state and pure helpers *)

Message(role, content) == [Role |-> role, Content |-> content]

\* the named policies; a string is the sequence of its tags and characters, and
\* a *ThinkFormat is the name of the variable it points to, or "nil"
ThinkFormatGLM46 ==
    [UserSuffix |-> <<"/nothink">>, AssistantPrefix |-> <<"</think>", "\n">>]
ThinkFormatGLM47 ==
    [UserSuffix |-> <<"/nothink">>, AssistantPrefix |-> <<"</think>">>]
ThinkFormatNone == [UserSuffix |-> <<>>, AssistantPrefix |-> <<>>]
\* a policy of the caller's own
customFormat == [UserSuffix |-> <<"/custom">>, AssistantPrefix |-> <<"<custom/>">>]

ThinkFormatPointers ==
    {"nil", "&ThinkFormatGLM46", "&ThinkFormatGLM47", "&ThinkFormatNone", "customFormat"}

\* the ThinkFormat a pointer other than nil points to
Deref(p) ==
    CASE p = "&ThinkFormatGLM46" -> ThinkFormatGLM46
      [] p = "&ThinkFormatGLM47" -> ThinkFormatGLM47
      [] p = "&ThinkFormatNone" -> ThinkFormatNone
      [] p = "customFormat" -> customFormat

DefaultSettings ==
    [Model |-> "glm-4-6", Thinking |-> FALSE, ThinkFormat |-> "&ThinkFormatGLM46"]

\* an error value is the format string of fmt.Errorf cut at its verbs, with the
\* arguments in their places; nil is the empty tuple
NoErr == <<>>

normalizeStopReason(reason) ==
    CASE reason = "stop" -> "end_turn"
      [] reason = "length" -> "max_tokens"
      [] reason = "tool_calls" -> "tool_use"
      [] OTHER -> reason

\* faulty variant: the earlier turn is trimmed on both sides
MergedMessagesTrimsBoth(msgs) ==
    IF Len(msgs) < 2 THEN msgs
    ELSE IF msgs[Len(msgs)].Role # "assistant" \/ msgs[Len(msgs) - 1].Role # "assistant"
    THEN msgs
    ELSE SubSeq([msgs EXCEPT ![Len(msgs) - 1].Content =
                     TrimSpace(msgs[Len(msgs) - 1].Content)
                     \o TrimSpace(msgs[Len(msgs)].Content)], 1, Len(msgs) - 1)
\* faulty variant: the two turns are joined as they are
MergedMessagesNoTrim(msgs) ==
    IF Len(msgs) < 2 THEN msgs
    ELSE IF msgs[Len(msgs)].Role # "assistant" \/ msgs[Len(msgs) - 1].Role # "assistant"
    THEN msgs
    ELSE SubSeq([msgs EXCEPT ![Len(msgs) - 1].Content =
                     msgs[Len(msgs) - 1].Content \o msgs[Len(msgs)].Content],
                1, Len(msgs) - 1)
\* faulty variant: the later turn is merged into the earlier one but not dropped
MergedMessagesKeepsLast(msgs) ==
    IF Len(msgs) < 2 THEN msgs
    ELSE IF msgs[Len(msgs)].Role # "assistant" \/ msgs[Len(msgs) - 1].Role # "assistant"
    THEN msgs
    ELSE [msgs EXCEPT ![Len(msgs) - 1].Content =
              TrimRight(msgs[Len(msgs) - 1].Content, TrimRightCutset)
              \o TrimSpace(msgs[Len(msgs)].Content)]
\* the history MergeIfLastTwoAssistant leaves, given the history it finds
MergedMessages(msgs) ==
    IF Len(msgs) < 2 THEN msgs
    ELSE LET lastIdx == Len(msgs)
             secondLastIdx == lastIdx - 1
         IN IF msgs[lastIdx].Role # "assistant" \/ msgs[secondLastIdx].Role # "assistant"
            THEN msgs
            ELSE LET merged == TrimRight(msgs[secondLastIdx].Content, TrimRightCutset)
                               \o TrimSpace(msgs[lastIdx].Content)
                 IN SubSeq([msgs EXCEPT ![secondLastIdx].Content = merged], 1, lastIdx - 1)

\* what buildPrompt writes for the history entry at index i
\* (promptOfMessagesMergesSystem: faulty variant that writes a system entry
\* right behind another one without its delimiter; promptOfMessagesEveryUser:
\* faulty variant that writes the suffix behind every user turn;
\* promptOfMessagesLastWritten: faulty variant for which the last entry is the
\* last one it writes)
RECURSIVE promptOfMessagesMergesSystem(_, _, _)
promptOfMessagesMergesSystem(msgs, i, thinking) ==
    IF i > Len(msgs) THEN <<>>
    ELSE LET msg == msgs[i]
             isLastMessage == i = Len(msgs)
             piece ==
                 CASE msg.Role = "user" ->
                        <<glmUser, "\n">> \o msg.Content
                        \o (IF isLastMessage /\ ~thinking THEN <<glmNoThink>> ELSE <<>>)
                        \o <<"\n">>
                   [] msg.Role = "assistant" ->
                        <<glmAssistant, "\n">> \o msg.Content \o <<"\n">>
                   [] msg.Role = "system" ->
                        (IF i > 1 /\ msgs[i - 1].Role = "system" THEN <<>>
                         ELSE <<glmSystem, "\n">>) \o msg.Content \o <<"\n">>
                   [] OTHER -> <<>>
         IN piece \o promptOfMessagesMergesSystem(msgs, i + 1, thinking)
RECURSIVE promptOfMessagesEveryUser(_, _, _)
promptOfMessagesEveryUser(msgs, i, thinking) ==
    IF i > Len(msgs) THEN <<>>
    ELSE LET msg == msgs[i]
             piece ==
                 CASE msg.Role = "user" ->
                        <<glmUser, "\n">> \o msg.Content
                        \o (IF ~thinking THEN <<glmNoThink>> ELSE <<>>)
                        \o <<"\n">>
                   [] msg.Role = "assistant" ->
                        <<glmAssistant, "\n">> \o msg.Content \o <<"\n">>
                   [] msg.Role = "system" ->
                        <<glmSystem, "\n">> \o msg.Content \o <<"\n">>
                   [] OTHER -> <<>>
         IN piece \o promptOfMessagesEveryUser(msgs, i + 1, thinking)
RECURSIVE promptOfMessagesLastWritten(_, _, _)
promptOfMessagesLastWritten(msgs, i, thinking) ==
    IF i > Len(msgs) THEN <<>>
    ELSE LET msg == msgs[i]
             isLastMessage == \A j \in (i + 1)..Len(msgs) :
                                  msgs[j].Role \notin {"user", "assistant", "system"}
             piece ==
                 CASE msg.Role = "user" ->
                        <<glmUser, "\n">> \o msg.Content
                        \o (IF isLastMessage /\ ~thinking THEN <<glmNoThink>> ELSE <<>>)
                        \o <<"\n">>
                   [] msg.Role = "assistant" ->
                        <<glmAssistant, "\n">> \o msg.Content \o <<"\n">>
                   [] msg.Role = "system" ->
                        <<glmSystem, "\n">> \o msg.Content \o <<"\n">>
                   [] OTHER -> <<>>
         IN piece \o promptOfMessagesLastWritten(msgs, i + 1, thinking)
RECURSIVE promptOfMessages(_, _, _)
promptOfMessages(msgs, i, thinking) ==
    IF i > Len(msgs) THEN <<>>
    ELSE LET msg == msgs[i]
             isLastMessage == i = Len(msgs)
             piece ==
                 CASE msg.Role = "user" ->
                        <<glmUser, "\n">> \o msg.Content
                        \o (IF isLastMessage /\ ~thinking THEN <<glmNoThink>> ELSE <<>>)
                        \o <<"\n">>
                   [] msg.Role = "assistant" ->
                        <<glmAssistant, "\n">> \o msg.Content \o <<"\n">>
                   [] msg.Role = "system" ->
                        <<glmSystem, "\n">> \o msg.Content \o <<"\n">>
                   [] OTHER -> <<>>
         IN piece \o promptOfMessages(msgs, i + 1, thinking)

\* the prompt as the sequence of pieces written to the builder: a delimiter or
\* a tag is one piece, a character of a content string is one piece
\* (buildPromptAlwaysPrefills: faulty variant that prefills also when thinking
\* is enabled)
buildPromptAlwaysPrefills(system, msgs, thinking) ==
    <<glmPrefix>>
    \o (IF system # <<>> THEN <<glmSystem, "\n">> \o system \o <<"\n">> ELSE <<>>)
    \o promptOfMessages(msgs, 1, thinking)
    \o <<glmAssistant, "\n">>
    \o <<"<think>", "</think>", "\n">>
buildPrompt(system, msgs, thinking) ==
    <<glmPrefix>>
    \o (IF system # <<>> THEN <<glmSystem, "\n">> \o system \o <<"\n">> ELSE <<>>)
    \o promptOfMessages(msgs, 1, thinking)
    \o <<glmAssistant, "\n">>
    \o (IF ~thinking THEN <<"<think>", "</think>", "\n">> ELSE <<>>)

\* the effective policy of a Conversation: the one Settings.ThinkFormat points
\* to, ThinkFormatGLM46 when it is nil
thinkFormat(settings) ==
    IF settings.ThinkFormat = "nil" THEN ThinkFormatGLM46 ELSE Deref(settings.ThinkFormat)

-----------------------------------------------------------------------------
(* Requests and responses *)

\* json.Marshal(completionRequest{...}): the fields the model keeps
completionRequest(settings, prompt, stream) ==
    [Model |-> settings.Model, Prompt |-> prompt, Stream |-> stream]

\* http.NewRequest plus the Header.Set calls; id tells the request objects of
\* one call apart (0 is the first one built, k the one built for retry k)
NewRequest(id, jsonData, token, stream) ==
    [id |-> id,
     body |-> jsonData,
     headers |-> {<<"Content-Type", "application/json">>,
                  <<"Authorization", <<"Bearer ", token>> >>}
                 \cup (IF stream THEN {<<"Accept", "text/event-stream">>} ELSE {})]

\* the retry loop goes round again after a failed attempt while attempt < retries
\* (LoopAgainBroken: faulty variant with attempt <= retries)
LoopAgainBroken(failed, n) == failed /\ n <= retries
LoopAgain(failed, n) == failed /\ n < retries

\* what the provider can answer to one non-streaming attempt: a body that
\* decodes, per reply text, finish reason and usage report
ReplyTexts == {<<>>, <<"b", " ">>, <<" ", "c">>}
FinishReasons == {"stop", "length", "tool_calls", "", "eos"}
NoTokens == [PromptTokens |-> 0, CompletionTokens |-> 0]
SomeTokens == [PromptTokens |-> 2, CompletionTokens |-> 1]

JsonBody(text, finish, usage) ==
    [kind |-> "json", Choices |-> <<[Text |-> text, FinishReason |-> finish]>>,
     Usage |-> usage]

JsonBodies ==
    {[kind |-> "json", Choices |-> <<>>, Usage |-> SomeTokens],
     JsonBody(<<>>, "stop", NoTokens),
     JsonBody(<<"b", " ">>, "stop", SomeTokens),
     JsonBody(<<"b", " ">>, "length", SomeTokens),
     JsonBody(<<" ", "c">>, "tool_calls", SomeTokens),
     JsonBody(<<" ", "c">>, "", NoTokens),
     JsonBody(<<"b", " ">>, "eos", SomeTokens)}

TextBodies == {[kind |-> "text", raw |-> <<"x">>]}

\* transport failure, or a response: status, whether reading the body fails, body
Outcomes ==
    {[transport |-> "error"]}
    \cup {[transport |-> "ok", status |-> 500, readErr |-> r, body |-> b] :
              r \in BOOLEAN, b \in TextBodies}
    \cup {[transport |-> "ok", status |-> StatusOK, readErr |-> TRUE, body |-> b] : b \in TextBodies}
    \cup {[transport |-> "ok", status |-> StatusOK, readErr |-> FALSE, body |-> b] :
              b \in TextBodies \cup JsonBodies}

\* the serialized body as io.ReadAll returns it: the text of a body that is no
\* JSON document; a JSON document stands for its own serialization
Raw(body) == IF body.kind = "text" THEN body.raw ELSE body

\* fmt.Errorf("HTTP error after %d retries: %w", retries, err)
RetriesError(cause) == <<"HTTP error after ", retries, " retries: ", cause>>

\* fmt.Errorf("API error (status %d): %s", resp.StatusCode, body)
ApiError(status, body) == <<"API error (status ", status, "): ", body>>

Result(reply, stopReason, inputTokens, outputTokens, err, msgs, usage) ==
    [reply |-> reply, stopReason |-> stopReason, inputTokens |-> inputTokens,
     outputTokens |-> outputTokens, err |-> err, Messages |-> msgs, Usage |-> usage]

-----------------------------------------------------------------------------
(* Send *)

\* Send up to the prompt: the credential check and the user turn. The three
\* faulty variants leave out the credential check, leave out the check for an
\* empty history, and refuse to continue a history that ends in another turn
\* than an assistant turn.
SendPreNoTokenCheck(token, msgs, text) ==
    IF text # <<>> THEN [err |-> NoErr, Messages |-> Append(msgs, Message("user", text))]
    ELSE IF Len(msgs) = 0
    THEN [err |-> <<"cannot generate: no messages in conversation">>, Messages |-> msgs]
    ELSE [err |-> NoErr, Messages |-> msgs]
\* (SendPreStoresSuffix: faulty variant that appends the user turn as it is
\* written into the prompt)
SendPreStoresSuffix(token, msgs, text) ==
    IF token = "" THEN [err |-> <<"API token not set">>, Messages |-> msgs]
    ELSE IF text # <<>>
    THEN [err |-> NoErr, Messages |-> Append(msgs, Message("user", text \o <<glmNoThink>>))]
    ELSE IF Len(msgs) = 0
    THEN [err |-> <<"cannot generate: no messages in conversation">>, Messages |-> msgs]
    ELSE [err |-> NoErr, Messages |-> msgs]
SendPreNoEmptyCheck(token, msgs, text) ==
    IF token = "" THEN [err |-> <<"API token not set">>, Messages |-> msgs]
    ELSE IF text # <<>> THEN [err |-> NoErr, Messages |-> Append(msgs, Message("user", text))]
    ELSE [err |-> NoErr, Messages |-> msgs]
SendPreNeedsAssistant(token, msgs, text) ==
    IF token = "" THEN [err |-> <<"API token not set">>, Messages |-> msgs]
    ELSE IF text # <<>> THEN [err |-> NoErr, Messages |-> Append(msgs, Message("user", text))]
    ELSE IF Len(msgs) = 0 \/ msgs[Len(msgs)].Role # "assistant"
    THEN [err |-> <<"cannot generate: no messages in conversation">>, Messages |-> msgs]
    ELSE [err |-> NoErr, Messages |-> msgs]
SendPreSkipsRepeated(token, msgs, text) ==
    IF token = "" THEN [err |-> <<"API token not set">>, Messages |-> msgs]
    ELSE IF text # <<>> /\ (msgs = <<>> \/ msgs[Len(msgs)] # Message("user", text))
    THEN [err |-> NoErr, Messages |-> Append(msgs, Message("user", text))]
    ELSE IF Len(msgs) = 0
    THEN [err |-> <<"cannot generate: no messages in conversation">>, Messages |-> msgs]
    ELSE [err |-> NoErr, Messages |-> msgs]
SendPre(token, msgs, text) ==
    IF token = "" THEN [err |-> <<"API token not set">>, Messages |-> msgs]
    ELSE IF text # <<>> THEN [err |-> NoErr, Messages |-> Append(msgs, Message("user", text))]
    ELSE IF Len(msgs) = 0
    THEN [err |-> <<"cannot generate: no messages in conversation">>, Messages |-> msgs]
    ELSE [err |-> NoErr, Messages |-> msgs]

\* Send after the retry loop, given the loop's last outcome. The two faulty
\* variants append an assistant turn for a body that gave no reply, and store
\* the call's token counts in place of adding them.
SendPostAppendsOnError(msgs, usage, o) ==
    IF o.transport = "error"
    THEN Result(<<>>, "", 0, 0, RetriesError(o.transport), msgs, usage)
    ELSE IF o.readErr
    THEN Result(<<>>, "", 0, 0, <<"error reading response: ", "read">>, msgs, usage)
    ELSE IF o.status # StatusOK
    THEN Result(<<>>, "", 0, 0, ApiError(o.status, Raw(o.body)), msgs, usage)
    ELSE IF o.body.kind # "json"
    THEN Result(Raw(o.body), "", 0, 0, <<"error parsing response: ", "json">>,
                Append(msgs, Message("assistant", Raw(o.body))), usage)
    ELSE IF Len(o.body.Choices) = 0
    THEN Result(<<>>, "", 0, 0, <<"no choices in response">>,
                Append(msgs, Message("assistant", <<>>)), usage)
    ELSE Result(o.body.Choices[1].Text,
                normalizeStopReason(o.body.Choices[1].FinishReason),
                o.body.Usage.PromptTokens, o.body.Usage.CompletionTokens, NoErr,
                Append(msgs, Message("assistant", o.body.Choices[1].Text)),
                [InputTokens |-> usage.InputTokens + o.body.Usage.PromptTokens,
                 OutputTokens |-> usage.OutputTokens + o.body.Usage.CompletionTokens])
SendPostOverwritesUsage(msgs, usage, o) ==
    IF o.transport = "error"
    THEN Result(<<>>, "", 0, 0, RetriesError(o.transport), msgs, usage)
    ELSE IF o.readErr
    THEN Result(<<>>, "", 0, 0, <<"error reading response: ", "read">>, msgs, usage)
    ELSE IF o.status # StatusOK
    THEN Result(<<>>, "", 0, 0, ApiError(o.status, Raw(o.body)), msgs, usage)
    ELSE IF o.body.kind # "json"
    THEN Result(Raw(o.body), "", 0, 0, <<"error parsing response: ", "json">>, msgs, usage)
    ELSE IF Len(o.body.Choices) = 0
    THEN Result(<<>>, "", 0, 0, <<"no choices in response">>, msgs, usage)
    ELSE Result(o.body.Choices[1].Text,
                normalizeStopReason(o.body.Choices[1].FinishReason),
                o.body.Usage.PromptTokens, o.body.Usage.CompletionTokens, NoErr,
                Append(msgs, Message("assistant", o.body.Choices[1].Text)),
                [InputTokens |-> o.body.Usage.PromptTokens,
                 OutputTokens |-> o.body.Usage.CompletionTokens])
SendPost(msgs, usage, o) ==
    IF o.transport = "error"
    THEN Result(<<>>, "", 0, 0, RetriesError(o.transport), msgs, usage)
    ELSE IF o.readErr
    THEN Result(<<>>, "", 0, 0, <<"error reading response: ", "read">>, msgs, usage)
    ELSE IF o.status # StatusOK
    THEN Result(<<>>, "", 0, 0, ApiError(o.status, Raw(o.body)), msgs, usage)
    ELSE IF o.body.kind # "json"
    THEN Result(Raw(o.body), "", 0, 0, <<"error parsing response: ", "json">>, msgs, usage)
    ELSE IF Len(o.body.Choices) = 0
    THEN Result(<<>>, "", 0, 0, <<"no choices in response">>, msgs, usage)
    ELSE LET choice == o.body.Choices[1]
             reply == choice.Text
             inputTokens == o.body.Usage.PromptTokens
             outputTokens == o.body.Usage.CompletionTokens
         IN Result(reply, normalizeStopReason(choice.FinishReason),
                   inputTokens, outputTokens, NoErr,
                   Append(msgs, Message("assistant", reply)),
                   [InputTokens |-> usage.InputTokens + inputTokens,
                    OutputTokens |-> usage.OutputTokens + outputTokens])

-----------------------------------------------------------------------------
(* Streaming *)

\* JSON null in a chunk's finish_reason (a nil *string)
Null == "null"

DataLine(text, finish) ==
    [kind |-> "chunk", Choices |-> <<[Text |-> text, FinishReason |-> finish]>>]
DoneLine == [kind |-> "done"]
OtherLine == [kind |-> "other"]
MalformedLine == [kind |-> "malformed"]
NoChoicesLine == [kind |-> "chunk", Choices |-> <<>>]

\* the stop reason after a chunk: its finish_reason when it has a non-empty one
\* (PendingStopReasonFirst: faulty variant that keeps the first one seen)
PendingStopReasonFirst(stopReason, finish) ==
    IF stopReason = "" /\ finish # Null THEN finish ELSE stopReason
PendingStopReason(stopReason, finish) ==
    IF finish # Null /\ finish # "" THEN finish ELSE stopReason

\* parseSSEStream from line i on, with the text, stop reason and callback
\* invocations so far; readErr says whether a Read the scanner makes fails with
\* an error other than EOF. The scanner keeps that error and hands out the lines
\* it has, so scanner.Err() gives it behind the loop also when the loop was left
\* at [DONE]; a failure that would come on a Read behind [DONE] is never seen,
\* which is a stream with readErr FALSE.
RECURSIVE parseSSELines(_, _, _, _, _, _, _)
parseSSELines(lines, i, readErr, hasCallback, acc, stopReason, cbs) ==
    IF i > Len(lines)
    THEN [fullText |-> acc, stopReason |-> stopReason,
          err |-> IF readErr THEN <<"error reading stream: ", "read">> ELSE NoErr, callbacks |-> cbs]
    ELSE LET line == lines[i]
         IN IF line.kind = "other"
            THEN parseSSELines(lines, i + 1, readErr, hasCallback, acc, stopReason, cbs)
            ELSE IF line.kind = "done"
            THEN [fullText |-> acc, stopReason |-> stopReason,
                  err |-> IF readErr THEN <<"error reading stream: ", "read">> ELSE NoErr,
                  callbacks |-> IF hasCallback THEN Append(cbs, <<<<>>, TRUE>>) ELSE cbs]
            ELSE IF line.kind = "malformed"
            THEN parseSSELines(lines, i + 1, readErr, hasCallback, acc, stopReason, cbs)
            ELSE IF Len(line.Choices) = 0
            THEN parseSSELines(lines, i + 1, readErr, hasCallback, acc, stopReason, cbs)
            ELSE LET choice == line.Choices[1]
                     acc2 == IF choice.Text # <<>> THEN acc \o choice.Text ELSE acc
                     cbs2 == IF choice.Text # <<>> /\ hasCallback
                             THEN Append(cbs, <<choice.Text, FALSE>>) ELSE cbs
                     stop2 == PendingStopReason(stopReason, choice.FinishReason)
                 IN parseSSELines(lines, i + 1, readErr, hasCallback, acc2, stop2, cbs2)

\* faulty variants: one reads on behind [DONE], one gives up at a line that
\* does not decode, one calls back at the end of the stream only
parseSSEStreamPastDone(body, hasCallback) ==
    parseSSELines(SelectSeq(body.lines, LAMBDA l : l.kind # "done"), 1, body.readErr,
                  hasCallback, <<>>, "", <<>>)
parseSSEStreamStrict(body, hasCallback) ==
    IF \E i \in 1..Len(body.lines) : body.lines[i].kind = "malformed"
    THEN LET k == CHOOSE i \in 1..Len(body.lines) :
                      /\ body.lines[i].kind = "malformed"
                      /\ \A j \in 1..(i - 1) : body.lines[j].kind # "malformed"
         IN [parseSSELines(SubSeq(body.lines, 1, k - 1), 1, FALSE, hasCallback,
                           <<>>, "", <<>>)
                 EXCEPT !.err = <<"error parsing chunk: ", "json">>]
    ELSE parseSSELines(body.lines, 1, body.readErr, hasCallback, <<>>, "", <<>>)
parseSSEStreamDoneOnly(body, hasCallback) ==
    [parseSSELines(body.lines, 1, body.readErr, hasCallback, <<>>, "", <<>>)
         EXCEPT !.callbacks = SelectSeq(@, LAMBDA c : c[2])]
\* faulty variant: reports the end to the callback also when the stream ends
\* without a [DONE] line
parseSSEStreamDoneAtEOF(body, hasCallback) ==
    LET p == parseSSELines(body.lines, 1, body.readErr, hasCallback, <<>>, "", <<>>)
    IN IF /\ hasCallback
          /\ p.err = NoErr
          /\ \A i \in 1..Len(body.lines) : body.lines[i].kind # "done"
       THEN [p EXCEPT !.callbacks = Append(@, <<<<>>, TRUE>>)]
       ELSE p
parseSSEStream(body, hasCallback) ==
    parseSSELines(body.lines, 1, body.readErr, hasCallback, <<>>, "", <<>>)

\* what the provider can answer to one streaming attempt
Streams ==
    {[lines |-> <<DataLine(<<"b", " ">>, Null), DataLine(<<" ", "c">>, "stop"), DoneLine>>,
      readErr |-> FALSE],
     [lines |-> <<DataLine(<<"b", " ">>, "length"), DoneLine>>, readErr |-> FALSE],
     [lines |-> <<OtherLine, DataLine(<<" ", "c">>, Null)>>, readErr |-> FALSE],
     [lines |-> <<DataLine(<<"b", " ">>, "stop")>>, readErr |-> TRUE],
     [lines |-> <<DataLine(<<"b", " ">>, "stop"), DoneLine>>, readErr |-> TRUE],
     [lines |-> <<DoneLine>>, readErr |-> FALSE]}

StreamOutcomes ==
    {[transport |-> "error"]}
    \cup {[transport |-> "ok", status |-> 500, body |-> [lines |-> <<>>, readErr |-> FALSE]]}
    \cup {[transport |-> "ok", status |-> StatusOK, body |-> b] : b \in Streams}

\* SendStreaming up to the prompt
\* (SendStreamingPreNoEmptyCheck: faulty variant that goes on with no message)
SendStreamingPreNoEmptyCheck(token, msgs, text) ==
    IF token = "" THEN [err |-> <<"API token not set">>, Messages |-> msgs]
    ELSE IF text # <<>> THEN [err |-> NoErr, Messages |-> Append(msgs, Message("user", text))]
    ELSE [err |-> NoErr, Messages |-> msgs]
SendStreamingPre(token, msgs, text) ==
    IF token = "" THEN [err |-> <<"API token not set">>, Messages |-> msgs]
    ELSE IF text # <<>> THEN [err |-> NoErr, Messages |-> Append(msgs, Message("user", text))]
    ELSE IF Len(msgs) = 0
    THEN [err |-> <<"cannot generate: no messages in conversation">>, Messages |-> msgs]
    ELSE [err |-> NoErr, Messages |-> msgs]

\* SendStreaming after the retry loop, given the loop's last outcome; the
\* result also carries the callback invocations made while the stream was read
\* (SendStreamingPostKeepsPartial: faulty variant that stores the text of a
\* stream that broke as an assistant turn and counts it)
SendStreamingPostKeepsPartial(msgs, usage, o, hasCallback) ==
    IF o.transport = "error"
    THEN [r |-> Result(<<>>, "", 0, 0, RetriesError(o.transport), msgs, usage),
          callbacks |-> <<>>]
    ELSE IF o.status # StatusOK
    THEN [r |-> Result(<<>>, "", 0, 0, ApiError(o.status, o.body.lines), msgs, usage), callbacks |-> <<>>]
    ELSE LET p == parseSSEStream(o.body, hasCallback)
             reply == p.fullText
             estimate == Len(reply) \div 4
             outputTokens == IF estimate = 0 /\ Len(reply) > 0 THEN 1 ELSE estimate
         IN [r |-> Result(reply,
                          IF p.err # NoErr THEN p.stopReason
                          ELSE normalizeStopReason(p.stopReason),
                          0, outputTokens, p.err,
                          Append(msgs, Message("assistant", reply)),
                          [usage EXCEPT !.OutputTokens = @ + outputTokens]),
             callbacks |-> p.callbacks]
SendStreamingPost(msgs, usage, o, hasCallback) ==
    IF o.transport = "error"
    THEN [r |-> Result(<<>>, "", 0, 0, RetriesError(o.transport), msgs, usage),
          callbacks |-> <<>>]
    ELSE IF o.status # StatusOK
    THEN [r |-> Result(<<>>, "", 0, 0, ApiError(o.status, o.body.lines), msgs, usage), callbacks |-> <<>>]
    ELSE LET p == parseSSEStream(o.body, hasCallback)
         IN IF p.err # NoErr
            THEN [r |-> Result(p.fullText, p.stopReason, 0, 0, p.err, msgs, usage),
                  callbacks |-> p.callbacks]
            ELSE LET reply == p.fullText
                     estimate == Len(reply) \div 4
                     outputTokens == IF estimate = 0 /\ Len(reply) > 0 THEN 1 ELSE estimate
                 IN [r |-> Result(reply, normalizeStopReason(p.stopReason), 0, outputTokens,
                                  NoErr, Append(msgs, Message("assistant", reply)),
                                  [usage EXCEPT !.OutputTokens = @ + outputTokens]),
                     callbacks |-> p.callbacks]

\* a chunk that carries the provider's usage report (streamChunk.Usage is set):
\* the terminal chunk of a stream asked for with stream_options.include_usage,
\* with or without a choice
UsageLine(choices, usage) == [kind |-> "chunk", Choices |-> choices, Usage |-> usage]

\* whether a chunk of the stream carries a usage report, and the report
HasUsage(body) == \E i \in 1..Len(body.lines) : "Usage" \in DOMAIN body.lines[i]
ReportedUsage(body) ==
    body.lines[CHOOSE i \in 1..Len(body.lines) : "Usage" \in DOMAIN body.lines[i]].Usage

-----------------------------------------------------------------------------
(* The continuation loops *)

LoopInit == [totalReply |-> <<>>, inputTokens |-> 0, outputTokens |-> 0]

\* the loop goes round again exactly when the call stopped at the token limit
\* (ContinueOnLength: faulty variant that looks for the provider's own word;
\* ContinueNever: faulty variant that stops after the first call)
ContinueNever(stopReason) == FALSE
ContinueOnLength(stopReason) == stopReason = "length"
Continue(stopReason) == stopReason = "max_tokens"

\* totalReply += partReply; inputTokens += inToks; outputTokens += outToks
\* (AccumulateLast: faulty variant that keeps the last part only;
\* AccumulateLastCounts: faulty variant that keeps the last call's counts only)
AccumulateLastCounts(l, r) ==
    [totalReply |-> l.totalReply \o r.reply,
     inputTokens |-> r.inputTokens,
     outputTokens |-> r.outputTokens]
AccumulateLast(l, r) ==
    [totalReply |-> r.reply,
     inputTokens |-> l.inputTokens + r.inputTokens,
     outputTokens |-> l.outputTokens + r.outputTokens]
Accumulate(l, r) ==
    [totalReply |-> l.totalReply \o r.reply,
     inputTokens |-> l.inputTokens + r.inputTokens,
     outputTokens |-> l.outputTokens + r.outputTokens]


\* the reply the loop returns with the error of a failed call: what the calls
\* before it added up to
\* (ErrorReplyEmpty: faulty variant that returns no text with an error)
ErrorReplyEmpty(l, r) == <<>>
ErrorReply(l, r) == l.totalReply

-----------------------------------------------------------------------------
(* Rich content *)

\* llmapi.ContentBlock: the type, the text of a text block and the *ThinkingBlock
\* of a thinking block, which is empty for nil and holds one record otherwise
TextBlock(text) == [Type |-> "text", Text |-> text, Thinking |-> <<>>]
ThinkingBlock(thinking) ==
    [Type |-> "thinking", Text |-> <<>>, Thinking |-> <<[Thinking |-> thinking]>>]
NilThinkingBlock == [Type |-> "thinking", Text |-> <<>>, Thinking |-> <<>>]
ImageBlock == [Type |-> "image", Text |-> <<>>, Thinking |-> <<>>]

\* the text of the blocks in order: a text block gives its text, a thinking
\* block its thinking between "<thinking>\n" and "\n</thinking>\n", any other
\* block and a thinking block without content nothing
RECURSIVE extractTextFromBlocks(_)
extractTextFromBlocks(blocks) ==
    IF blocks = <<>> THEN <<>>
    ELSE LET block == Head(blocks)
             text ==
                 CASE block.Type = "text" -> block.Text
                   [] block.Type = "thinking" ->
                        IF block.Thinking # <<>>
                        THEN <<"<thinking>", "\n">> \o block.Thinking[1].Thinking
                             \o <<"\n", "</thinking>", "\n">>
                        ELSE <<>>
                   [] OTHER -> <<>>
         IN text \o extractTextFromBlocks(Tail(blocks))

-----------------------------------------------------------------------------
(* The state machine *)

Systems == {<<>>, <<"s">>}
Tokens == {"", "tok"}
UserTexts == {<<>>, <<"h">>}
\* what the caller hands AddMessage
AddMessages ==
    {Message("user", <<"q">>), Message("system", <<"n">>),
     Message("assistant", <<"a", " ">>), Message("assistant", <<VT, "a", "\f">>)}

\* the size of a history: one per entry plus one per character of content
RECURSIVE Size(_)
Size(msgs) == IF msgs = <<>> THEN 0 ELSE 1 + Len(Head(msgs).Content) + Size(Tail(msgs))

NoReq == [id |-> -1, body |-> [Model |-> "", Prompt |-> <<>>, Stream |-> FALSE],
          headers |-> {}]
NoRet == [op |-> "none", reply |-> <<>>, stopReason |-> "", inputTokens |-> 0,
          outputTokens |-> 0, err |-> NoErr]

Streaming(o) == o \in {"SendStreaming", "SendStreamingUntilDone", "SendRichStreaming"}
\* the operations that take content blocks and return a *RichResponse
Rich(o) == o \in {"SendRich", "SendRichStreaming"}

\* &llmapi.RichResponse{Content: {NewTextBlock(reply)}, StopReason, InputTokens,
\* OutputTokens}
RichResponse(reply, stopReason, inputTokens, outputTokens) ==
    [Content |-> <<TextBlock(reply)>>, StopReason |-> stopReason,
     InputTokens |-> inputTokens, OutputTokens |-> outputTokens]

\* what SendRich and SendRichStreaming return when the Send or SendStreaming
\* they called returned r: nil (the empty tuple) and the error, or a pointer to
\* the response (a tuple of one) and no error
RichReturn(name, r) ==
    [op |-> name,
     response |-> IF r.err # NoErr THEN <<>>
                  ELSE <<RichResponse(r.reply, r.stopReason, r.inputTokens,
                                      r.outputTokens)>>,
     err |-> r.err]
Looping(o) == o \in {"SendUntilDone", "SendStreamingUntilDone"}

\* the stream with these lines, whether the reader fails behind them and
\* whether the caller gave a callback, with what parseSSEStream returns for it
Stream(lines, readErr, hasCallback) ==
    [lines |-> lines, readErr |-> readErr, callback |-> hasCallback,
     out |-> parseSSEStream([lines |-> lines, readErr |-> readErr], hasCallback),
     inserted |-> FALSE, was |-> <<>>]

\* the callers whose Send calls may overlap, and the locals of one that is not
\* inside a call
Callers == {1, 2}
NoCaller ==
    [at |-> "idle", text |-> <<>>, seen |-> <<>>, built |-> <<>>, r |-> NoRet,
     appended |-> <<>>, overlapped |-> FALSE]

\* NewConversation(system), with DefaultApiToken as the environment left it
NewConversation(system) ==
    /\ System = system
    /\ Messages = <<>>
    /\ Usage = [InputTokens |-> 0, OutputTokens |-> 0]
    /\ ApiToken \in Tokens
    /\ Settings = DefaultSettings
    /\ op = "idle"
    /\ pc = "idle"
    /\ input = <<>>
    /\ attempt = 0
    /\ httpReq = NoReq
    /\ loop = LoopInit
    /\ ret = NoRet
    /\ pre = [op |-> "NewConversation", text |-> <<>>, callback |-> FALSE,
              Messages |-> <<>>, Usage |-> [InputTokens |-> 0, OutputTokens |-> 0],
              again |-> FALSE, first |-> <<>>, ctx |-> "none",
              retry |-> [set |-> FALSE, text |-> <<>>, Messages |-> <<>>]]
    /\ sent = <<>>
    /\ calls = <<>>
    /\ cblog = <<>>
    /\ ctx = "none"
    /\ lastPrompt = <<>>
    /\ callers = [t \in Callers |-> NoCaller]
    /\ scanned = 0

InitConversation == \E system \in Systems : NewConversation(system)

Init ==
    /\ InitConversation
    /\ sse = Stream(<<>>, FALSE, FALSE)

\* what an operation finds when it starts; for MergeIfLastTwoAssistant called
\* right after itself, also the history the first of the two calls found; for
\* a Send called right after a Send with text that failed past the credential
\* check, also that call's text and the history it found
Snapshot(name, text, callback) ==
    LET again == name = "MergeIfLastTwoAssistant" /\ pre.op = name
        retry == /\ name = "Send"
                 /\ pre.op = name
                 /\ ret.op = name
                 /\ pre.text # <<>>
                 /\ ret.err \notin {NoErr, <<"API token not set">>}
    IN [op |-> name, text |-> text, callback |-> callback, Messages |-> Messages,
        Usage |-> Usage, ctx |-> ctx, again |-> again,
        first |-> IF again THEN pre.Messages ELSE <<>>,
        retry |-> IF retry
                  THEN [set |-> TRUE, text |-> pre.text, Messages |-> pre.Messages]
                  ELSE [set |-> FALSE, text |-> <<>>, Messages |-> <<>>]]

\* an operation that only touches the Conversation's fields returns at once
Returning(name, out) ==
    /\ pre' = Snapshot(name, <<>>, FALSE)
    /\ ret' = [NoRet EXCEPT !.op = name]
    /\ sent' = <<>>
    /\ calls' = <<>>
    /\ cblog' = <<>>
    /\ lastPrompt' = out
    /\ UNCHANGED <<op, pc, input, attempt, httpReq, loop>>

Returns(name) == Returning(name, <<>>)

\* (AddMessagePrepends: faulty variant that puts the entry in front)
AddMessagePrepends(role, content) ==
    /\ op = "idle"
    /\ Size(Messages) <= MaxSize
    /\ Messages' = <<Message(role, content)>> \o Messages
    /\ Returns("AddMessage")
    /\ UNCHANGED <<System, Usage, ApiToken, Settings, ctx, sse, callers, scanned>>
AddMessage(role, content) ==
    /\ op = "idle"
    /\ Size(Messages) <= MaxSize
    /\ Messages' = Append(Messages, Message(role, content))
    /\ Returns("AddMessage")
    /\ UNCHANGED <<System, Usage, ApiToken, Settings, ctx, sse, callers, scanned>>

\* AddRichMessage(role, content): the text of the blocks is appended as one
\* entry under the role
AddRichMessage(role, content) ==
    /\ op = "idle"
    /\ Size(Messages) <= MaxSize
    /\ Messages' = Append(Messages, Message(role, extractTextFromBlocks(content)))
    /\ Returns("AddRichMessage")
    /\ UNCHANGED <<System, Usage, ApiToken, Settings, ctx, sse, callers, scanned>>

MergeIfLastTwoAssistant ==
    /\ op = "idle"
    /\ Messages' = MergedMessages(Messages)
    /\ Returns("MergeIfLastTwoAssistant")
    /\ UNCHANGED <<System, Usage, ApiToken, Settings, ctx, sse, callers, scanned>>

\* (ClearKeepsUsage: faulty variant that empties the history only;
\* ClearDropsSystem: faulty variant that also forgets the system prompt)
ClearDropsSystem ==
    /\ op = "idle"
    /\ Messages' = <<>>
    /\ Usage' = [InputTokens |-> 0, OutputTokens |-> 0]
    /\ System' = <<>>
    /\ Returns("Clear")
    /\ UNCHANGED <<ApiToken, Settings, ctx, sse, callers, scanned>>
ClearKeepsUsage ==
    /\ op = "idle"
    /\ Messages' = <<>>
    /\ Usage' = Usage
    /\ Returns("Clear")
    /\ UNCHANGED <<System, ApiToken, Settings, ctx, sse, callers, scanned>>
Clear ==
    /\ op = "idle"
    /\ Messages' = <<>>
    /\ Usage' = [InputTokens |-> 0, OutputTokens |-> 0]
    /\ Returns("Clear")
    /\ UNCHANGED <<System, ApiToken, Settings, ctx, sse, callers, scanned>>

SetModel(model) ==
    /\ op = "idle"
    /\ Settings' = [Settings EXCEPT !.Model = model]
    /\ Returns("SetModel")
    /\ UNCHANGED <<System, Messages, Usage, ApiToken, ctx, sse, callers, scanned>>

\* the caller assigns Settings.Thinking
SetThinking(thinking) ==
    /\ op = "idle"
    /\ Settings' = [Settings EXCEPT !.Thinking = thinking]
    /\ Returns("SetThinking")
    /\ UNCHANGED <<System, Messages, Usage, ApiToken, ctx, sse, callers, scanned>>

\* SetThinkFormat(tf): the policy tf points to becomes the effective one
SetThinkFormat(tf) ==
    /\ op = "idle"
    /\ Settings' = [Settings EXCEPT !.ThinkFormat = tf]
    /\ Returns("SetThinkFormat")
    /\ UNCHANGED <<System, Messages, Usage, ApiToken, ctx, sse, callers, scanned>>

\* buildPrompt is called on the Conversation as it stands
BuildPrompt ==
    /\ op = "idle"
    /\ Returning("buildPrompt", buildPrompt(System, Messages, Settings.Thinking))
    /\ UNCHANGED <<conv, ctx, sse, callers, scanned>>

\* the caller enters one of the four operations that call the provider
Enter(name, text, callback) ==
    /\ op = "idle"
    /\ Size(Messages) <= MaxStart
    /\ Usage.InputTokens + Usage.OutputTokens < MaxUsage
    /\ op' = name
    /\ pc' = "call"
    /\ input' = text
    /\ attempt' = 0
    /\ httpReq' = NoReq
    /\ loop' = LoopInit
    /\ ret' = NoRet
    /\ pre' = Snapshot(name, text, callback)
    /\ sent' = <<>>
    /\ calls' = <<>>
    /\ cblog' = <<>>
    /\ lastPrompt' = <<>>
    /\ UNCHANGED <<conv, ctx, sse, callers, scanned>>

Send(text) == Enter("Send", text, FALSE)
SendStreaming(text, callback) == Enter("SendStreaming", text, callback)
SendUntilDone(text) == Enter("SendUntilDone", text, FALSE)
SendStreamingUntilDone(text, callback) == Enter("SendStreamingUntilDone", text, callback)

\* SendRich and SendRichStreaming hand Send and SendStreaming the text of the
\* blocks
SendRich(content) == Enter("SendRich", extractTextFromBlocks(content), FALSE)
SendRichStreaming(content, callback) ==
    Enter("SendRichStreaming", extractTextFromBlocks(content), callback)

\* what the caller hands SendRich and SendRichStreaming: nothing, or a text block
RichSends == {<<>>, <<TextBlock(<<"h">>)>>}

\* one HttpClient.Do as the caller of the operation can observe it: the request
\* it was given, how it ended, the response if there was one, and whether the
\* retry delay was waited after it
Attempt(req, o, slept) ==
    [req |-> req, outcome |-> o.transport, resp |-> o, slept |-> slept]

\* the error of a call that the cancellation signal ended
CancellationError == <<"context canceled">>

\* no network I/O is started under a signal that is already cancelled
\* (AbortsNever: faulty variant that does not look at the signal)
AbortsNever(c) == FALSE
Aborts(c) == c = "cancelled"

\* whether the retry loop goes round again after attempt n was ended by the
\* signal: cancellation is terminal
\* (RetryAfterCancelAsFailure: faulty variant that treats it as a failure)
RetryAfterCancelAsFailure(n) == n < retries
RetryAfterCancel(n) == FALSE

\* SetContext(ctx): the caller attaches a signal, live or already cancelled
SetContext(c) ==
    /\ op = "idle"
    /\ ctx' = c
    /\ Returns("SetContext")
    /\ UNCHANGED <<conv, sse, callers, scanned>>

\* the attached signal fires
CancelFires ==
    /\ ctx = "live"
    /\ ctx' = "cancelled"
    /\ UNCHANGED <<conv, op, pc, input, attempt, httpReq, loop, ret, pre, sent,
                   calls, cblog, sse, lastPrompt, callers, scanned>>

\* what the caller of the operation can observe of the provider's answer to the
\* last attempt: its kind, and the raw text, finish reason and usage it carried
Obs(kind, text, finish, usage) ==
    [kind |-> kind, text |-> text, finish |-> finish, usage |-> usage]
NoObs == Obs("none", <<>>, "", NoTokens)

\* the loop of parseSSEStream was handed a [DONE] line of the response to the
\* last of the attempts `tried`
ReachedDone(tried) ==
    /\ pc = "stream"
    /\ \E i \in 1..scanned : tried[Len(tried)].resp.body.lines[i].kind = "done"

\* the underlying call returned r after the attempts `tried`; obs is what the
\* provider answered, cbs the callback invocations made while reading it
Deliver(r, tried, obs, cbs) ==
    /\ calls' = Append(calls, [input |-> input, reply |-> r.reply,
                               done |-> ReachedDone(tried),
                               stopReason |-> r.stopReason,
                               inputTokens |-> r.inputTokens,
                               outputTokens |-> r.outputTokens, err |-> r.err,
                               obs |-> obs])
    /\ sent' = tried
    /\ cblog' = cblog \o cbs
    /\ Usage' = r.Usage
    /\ attempt' = 0
    /\ httpReq' = NoReq
    /\ UNCHANGED <<System, ApiToken, Settings, pre>>
    /\ IF ~Looping(op)
       THEN /\ Messages' = r.Messages
            /\ ret' = IF Rich(op) THEN RichReturn(op, r)
                       ELSE [op |-> op, reply |-> r.reply, stopReason |-> r.stopReason,
                             inputTokens |-> r.inputTokens,
                             outputTokens |-> r.outputTokens, err |-> r.err]
            /\ op' = "idle" /\ pc' = "idle" /\ input' = <<>>
            /\ UNCHANGED loop
       ELSE IF r.err # NoErr
       THEN /\ Messages' = r.Messages
            /\ ret' = [op |-> op, reply |-> ErrorReply(loop, r), stopReason |-> r.stopReason,
                       inputTokens |-> loop.inputTokens,
                       outputTokens |-> loop.outputTokens, err |-> r.err]
            /\ op' = "idle" /\ pc' = "idle" /\ input' = <<>>
            /\ UNCHANGED loop
       ELSE LET l == Accumulate(loop, r)
            IN /\ Messages' = MergedMessages(r.Messages)
               /\ loop' = l
               /\ IF Continue(r.stopReason)
                  THEN /\ input' = <<>>
                       /\ pc' = "call"
                       /\ UNCHANGED <<op, ret>>
                  ELSE /\ ret' = [op |-> op, reply |-> l.totalReply,
                                  stopReason |-> r.stopReason,
                                  inputTokens |-> l.inputTokens,
                                  outputTokens |-> l.outputTokens, err |-> NoErr]
                       /\ op' = "idle" /\ pc' = "idle" /\ input' = <<>>

\* Send, from its first line to the first HttpClient.Do
CallSend ==
    /\ pc = "call"
    /\ ~Streaming(op)
    /\ UNCHANGED <<ctx, sse, lastPrompt, callers, scanned>>
    /\ LET p == SendPre(ApiToken, Messages, input)
       IN IF p.err # NoErr
          THEN Deliver(Result(<<>>, "", 0, 0, p.err, p.Messages, Usage), <<>>, NoObs, <<>>)
          ELSE /\ Messages' = p.Messages
               /\ httpReq' = NewRequest(0,
                      completionRequest(Settings,
                          buildPrompt(System, p.Messages, Settings.Thinking), FALSE),
                      ApiToken, FALSE)
               /\ attempt' = 0
               /\ pc' = "http"
               /\ sent' = <<>>
               /\ UNCHANGED <<System, Usage, ApiToken, Settings, op, input, loop, ret,
                              pre, calls, cblog>>

\* SendStreaming, from its first line to the first client.Do
CallSendStreaming ==
    /\ pc = "call"
    /\ Streaming(op)
    /\ UNCHANGED <<ctx, sse, lastPrompt, callers, scanned>>
    /\ LET p == SendStreamingPre(ApiToken, Messages, input)
       IN IF p.err # NoErr
          THEN Deliver(Result(<<>>, "", 0, 0, p.err, p.Messages, Usage), <<>>, NoObs, <<>>)
          ELSE /\ Messages' = p.Messages
               /\ httpReq' = NewRequest(0,
                      completionRequest(Settings,
                          buildPrompt(System, p.Messages, Settings.Thinking), TRUE),
                      ApiToken, TRUE)
               /\ attempt' = 0
               /\ pc' = "http"
               /\ sent' = <<>>
               /\ UNCHANGED <<System, Usage, ApiToken, Settings, op, input, loop, ret,
                              pre, calls, cblog>>

\* the provider keeps answering "length" inside one loop at most MaxConts times
Truncations == Cardinality({i \in 1..Len(calls) : calls[i].obs.finish = "length"})

\* the observation of a non-streaming outcome
ObsOf(o) ==
    IF o.transport = "error" THEN Obs("transport", <<>>, "", NoTokens)
    ELSE IF o.readErr THEN Obs("read", <<>>, "", NoTokens)
    ELSE IF o.status # StatusOK THEN Obs("status", <<>>, "", NoTokens)
    ELSE IF o.body.kind # "json" THEN Obs("decode", <<>>, "", NoTokens)
    ELSE IF o.body.Choices = <<>> THEN Obs("nochoices", <<>>, "", o.body.Usage)
    ELSE Obs("ok", o.body.Choices[1].Text, o.body.Choices[1].FinishReason, o.body.Usage)

\* the text of the chunks of a stream up to its first [DONE] line
RECURSIVE StreamText(_)
StreamText(lines) ==
    IF lines = <<>> \/ Head(lines).kind = "done" THEN <<>>
    ELSE (IF Head(lines).kind = "chunk" /\ Head(lines).Choices # <<>>
          THEN Head(lines).Choices[1].Text ELSE <<>>) \o StreamText(Tail(lines))

\* the last finish reason of the chunks of a stream up to its first [DONE] line
RECURSIVE StreamFinish(_, _)
StreamFinish(lines, seen) ==
    IF lines = <<>> \/ Head(lines).kind = "done" THEN seen
    ELSE StreamFinish(Tail(lines),
             IF Head(lines).kind = "chunk" /\ Head(lines).Choices # <<>>
                /\ Head(lines).Choices[1].FinishReason \notin {Null, ""}
             THEN Head(lines).Choices[1].FinishReason ELSE seen)

HasDone(lines) == \E i \in 1..Len(lines) : lines[i].kind = "done"

\* the observation of a streaming outcome
StreamObsOf(o) ==
    IF o.transport = "error" THEN Obs("transport", <<>>, "", NoTokens)
    ELSE IF o.status # StatusOK THEN Obs("status", <<>>, "", NoTokens)
    ELSE Obs(IF o.body.readErr THEN "read" ELSE "ok",
             StreamText(o.body.lines), StreamFinish(o.body.lines, ""), NoTokens)

\* one round of Send's retry loop and, when the loop ends, the rest of Send
SendHttp(o) ==
    /\ pc = "http"
    /\ ~Streaming(op)
    /\ ~Aborts(ctx)
    /\ UNCHANGED <<ctx, sse, lastPrompt, callers, scanned>>
    /\ ObsOf(o).finish = "length" /\ Looping(op) => Truncations < MaxConts
    /\ LET tried == Append(sent, Attempt(httpReq, o,
                                         LoopAgain(o.transport = "error", attempt)))
       IN IF LoopAgain(o.transport = "error", attempt)
          THEN /\ attempt' = attempt + 1
               /\ httpReq' = NewRequest(attempt + 1, httpReq.body, ApiToken, FALSE)
               /\ sent' = tried
               /\ UNCHANGED <<System, Messages, Usage, ApiToken, Settings, op, pc,
                              input, loop, ret, pre, calls, cblog>>
          ELSE Deliver(SendPost(Messages, Usage, o), tried, ObsOf(o), <<>>)

\* one round of SendStreaming's retry loop; when the loop ends without a
\* response or with a status other than 200 also the rest of SendStreaming,
\* which gives `post`; with status 200 parseSSEStream starts on the body
StreamingRound(o, post) ==
    /\ pc = "http"
    /\ Streaming(op)
    /\ ~Aborts(ctx)
    /\ UNCHANGED <<ctx, sse, lastPrompt, callers, scanned>>
    /\ StreamObsOf(o).finish = "length" /\ Looping(op) => Truncations < MaxConts
    /\ LET tried == Append(sent, Attempt(httpReq, o,
                                         LoopAgain(o.transport = "error", attempt)))
       IN IF LoopAgain(o.transport = "error", attempt)
          THEN /\ attempt' = attempt + 1
               /\ httpReq' = NewRequest(attempt + 1, httpReq.body, ApiToken, TRUE)
               /\ sent' = tried
               /\ UNCHANGED <<System, Messages, Usage, ApiToken, Settings, op, pc,
                              input, loop, ret, pre, calls, cblog>>
          ELSE IF o.transport = "error" \/ o.status # StatusOK
          THEN Deliver(post.r, tried, StreamObsOf(o), <<>>)
          ELSE /\ pc' = "stream"
               /\ sent' = tried
               /\ UNCHANGED <<System, Messages, Usage, ApiToken, Settings, op, input,
                              attempt, httpReq, loop, ret, pre, calls, cblog>>

SendStreamingHttp(o) ==
    StreamingRound(o, SendStreamingPost(Messages, Usage, o, pre.callback))

\* the response parseSSEStream is reading
Response == sent[Len(sent)].resp

\* the loop of parseSSEStream has been left: at [DONE], or because Scan() found
\* no further line
ScanOver ==
    \/ scanned = Len(Response.body.lines)
    \/ scanned > 0 /\ Response.body.lines[scanned].kind = "done"

\* the callback invocations parseSSEStream has made when the first n lines of
\* the body have been handed to its loop
CallbacksUpTo(body, n, hasCallback) ==
    parseSSEStream([lines |-> SubSeq(body.lines, 1, n), readErr |-> FALSE],
                   hasCallback).callbacks

\* one pass of the loop of parseSSEStream: Scan() hands over the next line of
\* the response and the loop body runs on it, callback included; the history
\* and the counts are as SendStreaming left them before the request
ScanLine ==
    /\ pc = "stream"
    /\ ~ScanOver
    /\ scanned' = scanned + 1
    /\ LET before == CallbacksUpTo(Response.body, scanned, pre.callback)
           after == CallbacksUpTo(Response.body, scanned + 1, pre.callback)
       IN cblog' = cblog \o SubSeq(after, Len(before) + 1, Len(after))
    /\ UNCHANGED <<conv, op, pc, input, attempt, httpReq, loop, ret, pre, sent,
                   calls, ctx, sse, lastPrompt, callers>>

\* parseSSEStream returns behind its loop and SendStreaming runs to its end,
\* which gives `post`; the callbacks have been made line by line
StreamingRest(post) ==
    /\ pc = "stream"
    /\ ScanOver
    /\ scanned' = 0
    /\ UNCHANGED <<ctx, sse, lastPrompt, callers>>
    /\ Deliver(post.r, sent, StreamObsOf(Response), <<>>)

SendStreamingRest ==
    StreamingRest(SendStreamingPost(Messages, Usage, Response, pre.callback))

\* the signal is found cancelled by a Read of the body: the scanner stops with
\* that error behind the lines it has handed out, and parseSSEStream returns
\* the text and the stop reason of those lines with it
StreamCancelled ==
    /\ pc = "stream"
    /\ Aborts(ctx)
    /\ scanned' = 0
    /\ UNCHANGED <<ctx, sse, lastPrompt, callers>>
    /\ LET read == SubSeq(Response.body.lines, 1, scanned)
           p == parseSSEStream([lines |-> read, readErr |-> TRUE], pre.callback)
       IN Deliver(Result(p.fullText, p.stopReason, 0, 0,
                         <<"error reading stream: ">> \o CancellationError,
                         Messages, Usage),
                  sent, Obs("cancelled", StreamText(read), StreamFinish(read, ""), NoTokens),
                  <<>>)

\* the signal is found cancelled when an attempt is due: no attempt is made
SendAborted ==
    /\ pc = "http"
    /\ Aborts(ctx)
    /\ UNCHANGED <<ctx, sse, lastPrompt, callers, scanned>>
    /\ Deliver(Result(<<>>, "", 0, 0, CancellationError, Messages, Usage), sent,
               Obs("cancelled", <<>>, "", NoTokens), <<>>)

\* the signal fires while an attempt is under way and ends it
SendInterrupted ==
    /\ pc = "http"
    /\ ctx = "live"
    /\ ctx' = "cancelled"
    /\ UNCHANGED <<sse, lastPrompt, callers, scanned>>
    /\ IF RetryAfterCancel(attempt)
       THEN /\ attempt' = attempt + 1
            /\ httpReq' = NewRequest(attempt + 1, httpReq.body, ApiToken, Streaming(op))
            /\ sent' = Append(sent, Attempt(httpReq, [transport |-> "cancelled"], TRUE))
            /\ UNCHANGED <<conv, op, pc, input, loop, ret, pre, calls, cblog>>
       ELSE Deliver(Result(<<>>, "", 0, 0, CancellationError, Messages, Usage),
                    Append(sent, Attempt(httpReq, [transport |-> "cancelled"], FALSE)),
                    Obs("cancelled", <<>>, "", NoTokens), <<>>)

\* the single-shot operations and the operations on the history
Next ==
    \/ \E m \in AddMessages : AddMessage(m.Role, m.Content)
    \/ MergeIfLastTwoAssistant
    \/ Clear
    \/ \E text \in UserTexts : Send(text)
    \/ \E text \in UserTexts, callback \in BOOLEAN : SendStreaming(text, callback)
    \/ \E content \in RichSends : SendRich(content)
    \/ \E content \in RichSends : SendRichStreaming(content, TRUE)
    \/ CallSend
    \/ CallSendStreaming
    \/ \E o \in Outcomes : SendHttp(o)
    \/ \E o \in StreamOutcomes : SendStreamingHttp(o)
    \/ ScanLine
    \/ SendStreamingRest

Spec == Init /\ [][Next]_vars

\* the continuation loops, on histories seeded with AddMessage
LoopSeeds == {Message("user", <<"q">>), Message("assistant", <<"a", " ">>)}

LoopOutcomes ==
    {[transport |-> "ok", status |-> 500, readErr |-> FALSE, body |-> b] : b \in TextBodies}
    \cup {[transport |-> "ok", status |-> StatusOK, readErr |-> FALSE,
           body |-> JsonBody(t, f, IF t = <<"b", " ">> THEN SomeTokens ELSE NoTokens)] :
              t \in ReplyTexts \ {<<>>}, f \in {"length", "stop", ""}}

LoopStreamOutcomes == {o \in StreamOutcomes : o.transport = "ok"}

NextLoop ==
    \/ \E m \in LoopSeeds : AddMessage(m.Role, m.Content)
    \/ \E text \in UserTexts : SendUntilDone(text)
    \/ \E text \in UserTexts, callback \in BOOLEAN : SendStreamingUntilDone(text, callback)
    \/ CallSend
    \/ CallSendStreaming
    \/ \E o \in LoopOutcomes : SendHttp(o)
    \/ \E o \in LoopStreamOutcomes : SendStreamingHttp(o)
    \/ ScanLine
    \/ SendStreamingRest

SpecLoop == Init /\ [][NextLoop]_vars

\* the loops under fairness, on the streams of two lines and the refusal
FairStreamOutcomes ==
    {o \in LoopStreamOutcomes : o.status # StatusOK \/ Len(o.body.lines) = 2}

NextLoopFair ==
    \/ \E m \in LoopSeeds : AddMessage(m.Role, m.Content)
    \/ \E text \in UserTexts : SendUntilDone(text)
    \/ \E text \in UserTexts : SendStreamingUntilDone(text, TRUE)
    \/ CallSend
    \/ CallSendStreaming
    \/ \E o \in LoopOutcomes : SendHttp(o)
    \/ \E o \in FairStreamOutcomes : SendStreamingHttp(o)
    \/ ScanLine
    \/ SendStreamingRest

\* a call in progress goes on: the caller's goroutine runs, every attempt gets
\* an answer, of which at most MaxConts in a row inside one loop are cut at the
\* token limit, and every stream is read to its end
LoopProgress ==
    \/ CallSend
    \/ CallSendStreaming
    \/ \E o \in LoopOutcomes : SendHttp(o)
    \/ \E o \in FairStreamOutcomes : SendStreamingHttp(o)
    \/ ScanLine
    \/ SendStreamingRest

SpecLoopFair == Init /\ [][NextLoopFair]_vars /\ WF_vars(LoopProgress)

\* calls under a cancellation signal: the provider fails at the transport or
\* answers, and the signal can fire at any moment
CancelOutcomes ==
    {[transport |-> "error"],
     [transport |-> "ok", status |-> StatusOK, readErr |-> FALSE,
      body |-> JsonBody(<<"b", " ">>, "stop", SomeTokens)]}

CancelStreamOutcomes ==
    {[transport |-> "error"],
     [transport |-> "ok", status |-> StatusOK,
      body |-> [lines |-> <<DataLine(<<"b", " ">>, "stop"), DoneLine>>,
                readErr |-> FALSE]]}

NextCancel ==
    \/ \E c \in {"live", "cancelled"} : SetContext(c)
    \/ CancelFires
    \/ \E m \in LoopSeeds : AddMessage(m.Role, m.Content)
    \/ \E text \in UserTexts : Send(text)
    \/ \E text \in UserTexts, callback \in BOOLEAN : SendStreaming(text, callback)
    \/ CallSend
    \/ CallSendStreaming
    \/ \E o \in CancelOutcomes : SendHttp(o)
    \/ \E o \in CancelStreamOutcomes : SendStreamingHttp(o)
    \/ ScanLine
    \/ SendStreamingRest
    \/ StreamCancelled
    \/ SendAborted
    \/ SendInterrupted

SpecCancel == Init /\ [][NextCancel]_vars

\* streams of replies of 0, 2, 4 and 9 bytes, without a usage report and with
\* one on the terminal chunk
UsageStreams ==
    {[lines |-> <<DoneLine>>, readErr |-> FALSE],
     [lines |-> <<DataLine(<<"b", " ">>, "stop"), DoneLine>>, readErr |-> FALSE],
     [lines |-> <<DataLine(<<"b", " ">>, Null), DataLine(<<" ", "c">>, "stop"), DoneLine>>,
      readErr |-> FALSE],
     [lines |-> <<DataLine(<<"l", "o", "n", "g", "e">>, Null),
                  DataLine(<<"r", " ", "b", " ">>, "length"), DoneLine>>,
      readErr |-> FALSE],
     [lines |-> <<DataLine(<<"b", " ">>, "stop"),
                  UsageLine(<<>>, [PromptTokens |-> 2, CompletionTokens |-> 3]), DoneLine>>,
      readErr |-> FALSE],
     [lines |-> <<DataLine(<<"l", "o", "n", "g", "e">>, Null),
                  UsageLine(<<[Text |-> <<"r", " ", "b", " ">>, FinishReason |-> "stop"]>>,
                            [PromptTokens |-> 2, CompletionTokens |-> 1]),
                  DoneLine>>,
      readErr |-> FALSE],
     [lines |-> <<UsageLine(<<[Text |-> <<"b", " ">>, FinishReason |-> "stop"]>>,
                            [PromptTokens |-> 2, CompletionTokens |-> 3])>>,
      readErr |-> TRUE]}

UsageStreamOutcomes ==
    {[transport |-> "ok", status |-> 500, body |-> [lines |-> <<>>, readErr |-> FALSE]]}
    \cup {[transport |-> "ok", status |-> StatusOK, body |-> b] : b \in UsageStreams}

NextUsage ==
    \/ \E text \in UserTexts, callback \in BOOLEAN : SendStreaming(text, callback)
    \/ CallSendStreaming
    \/ \E o \in UsageStreamOutcomes : SendStreamingHttp(o)
    \/ ScanLine
    \/ SendStreamingRest

SpecUsage == Init /\ [][NextUsage]_vars

\* the prompt formatter on histories built with AddMessage, under every policy
\* every operation on a Conversation, the provider failing at the transport
\* or answering with a reply that ends or is cut at the token limit
HistoryModels == {"glm-4-6", "glm-4-7"}

\* what the caller hands AddRichMessage
RichContents ==
    {<<>>,
     <<ThinkingBlock(<<"t">>), TextBlock(<<"q">>)>>,
     <<NilThinkingBlock, ImageBlock, TextBlock(<<"q">>)>>}

HistoryOutcomes ==
    {[transport |-> "error"]}
    \cup {[transport |-> "ok", status |-> StatusOK, readErr |-> FALSE,
           body |-> JsonBody(<<"b", " ">>, f, SomeTokens)] : f \in {"length", "stop"}}

HistoryStreamOutcomes ==
    {[transport |-> "error"]}
    \cup {[transport |-> "ok", status |-> StatusOK,
           body |-> [lines |-> <<DataLine(<<"b", " ">>, f), DoneLine>>,
                     readErr |-> FALSE]] : f \in {"length", "stop"}}

NextHistory ==
    \/ \E m \in LoopSeeds : AddMessage(m.Role, m.Content)
    \/ \E content \in RichContents : AddRichMessage("user", content)
    \/ MergeIfLastTwoAssistant
    \/ Clear
    \/ \E model \in HistoryModels : SetModel(model)
    \/ BuildPrompt
    \/ \E text \in UserTexts : Send(text)
    \/ \E text \in UserTexts : SendStreaming(text, FALSE)
    \/ \E text \in UserTexts : SendUntilDone(text)
    \/ \E text \in UserTexts : SendStreamingUntilDone(text, FALSE)
    \/ \E content \in RichSends : SendRich(content)
    \/ \E content \in RichSends : SendRichStreaming(content, FALSE)
    \/ CallSend
    \/ CallSendStreaming
    \/ \E o \in HistoryOutcomes : SendHttp(o)
    \/ \E o \in HistoryStreamOutcomes : SendStreamingHttp(o)
    \/ ScanLine
    \/ SendStreamingRest

SpecHistory == Init /\ [][NextHistory]_vars

\* Send calls by two callers on one Conversation, which does no locking:
\* every read and every write of c.Messages and c.Usage is a step of its own.
\* A caller is at "user_r"/"user_w" (the append of the user turn, read and
\* write), "prompt", "http", "reply_r"/"reply_w" (the append of the reply),
\* "in_r"/"in_w" and "out_r"/"out_w" (the two += on c.Usage), or "done".
RaceTexts == {<<>>, <<"h">>, <<"k">>}

\* the provider's final answer to a call; the retry loop before it touches
\* no field of the Conversation
RaceOutcomes ==
    {[transport |-> "ok", status |-> 500, readErr |-> FALSE,
      body |-> [kind |-> "text", raw |-> <<"x">>]],
     [transport |-> "ok", status |-> StatusOK, readErr |-> FALSE,
      body |-> JsonBody(<<"b", " ">>, "stop", SomeTokens)]}

\* the variables of the operations that are called one after the other
single == <<op, pc, input, attempt, httpReq, loop, ret, pre, sent, calls, cblog,
            ctx, sse, lastPrompt, scanned>>

Active(t) == callers[t].at \notin {"idle", "done"}

\* caller t enters Send(text): the checks of its first lines
RaceSend(t, text) ==
    /\ op = "idle"
    /\ callers[t].at = "idle"
    /\ LET p == SendPre(ApiToken, Messages, text)
           over == \E u \in Callers \ {t} : Active(u)
           mine == [NoCaller EXCEPT
                       !.at = IF p.err # NoErr THEN "done"
                              ELSE IF text # <<>> THEN "user_r" ELSE "prompt",
                       !.text = text,
                       !.r = [NoRet EXCEPT !.op = "Send", !.err = p.err],
                       !.overlapped = over]
       IN callers' = [u \in Callers |->
                         IF u = t THEN mine
                         ELSE IF Active(u) THEN [callers[u] EXCEPT !.overlapped = TRUE]
                         ELSE callers[u]]
    /\ UNCHANGED <<conv, single>>

\* caller t reads the field its next statement assigns
RaceRead(t) ==
    /\ callers[t].at \in {"user_r", "reply_r", "in_r", "out_r"}
    /\ callers' = [callers EXCEPT ![t] =
           CASE @.at = "user_r" -> [@ EXCEPT !.at = "user_w", !.seen = Messages]
             [] @.at = "reply_r" -> [@ EXCEPT !.at = "reply_w", !.seen = Messages]
             [] @.at = "in_r" -> [@ EXCEPT !.at = "in_w", !.seen = Usage.InputTokens]
             [] @.at = "out_r" -> [@ EXCEPT !.at = "out_w", !.seen = Usage.OutputTokens]]
    /\ UNCHANGED <<conv, single>>

\* caller t assigns the field: c.Messages = append(c.Messages, ...),
\* c.Usage.InputTokens += inputTokens, c.Usage.OutputTokens += outputTokens
\* (RaceWriteOverwritesUsage: faulty variant that assigns the call's counts)
RaceWriteOverwritesUsage(t) ==
    LET c == callers[t]
    IN /\ c.at \in {"user_w", "reply_w", "in_w", "out_w"}
       /\ Messages' =
              CASE c.at = "user_w" -> Append(c.seen, Message("user", c.text))
                [] c.at = "reply_w" -> Append(c.seen, Message("assistant", c.r.reply))
                [] OTHER -> Messages
       /\ Usage' =
              CASE c.at = "in_w" -> [Usage EXCEPT !.InputTokens = c.r.inputTokens]
                [] c.at = "out_w" -> [Usage EXCEPT !.OutputTokens = c.r.outputTokens]
                [] OTHER -> Usage
       /\ callers' = [callers EXCEPT ![t] =
              CASE c.at = "user_w" -> [@ EXCEPT !.at = "prompt"]
                [] c.at = "reply_w" -> [@ EXCEPT !.at = "in_r", !.appended = Messages']
                [] c.at = "in_w" -> [@ EXCEPT !.at = "out_r"]
                [] c.at = "out_w" -> [@ EXCEPT !.at = "done"]]
       /\ UNCHANGED <<System, ApiToken, Settings, single>>
RaceWrite(t) ==
    LET c == callers[t]
    IN /\ c.at \in {"user_w", "reply_w", "in_w", "out_w"}
       /\ Messages' =
              CASE c.at = "user_w" -> Append(c.seen, Message("user", c.text))
                [] c.at = "reply_w" -> Append(c.seen, Message("assistant", c.r.reply))
                [] OTHER -> Messages
       /\ Usage' =
              CASE c.at = "in_w" ->
                     [Usage EXCEPT !.InputTokens = c.seen + c.r.inputTokens]
                [] c.at = "out_w" ->
                     [Usage EXCEPT !.OutputTokens = c.seen + c.r.outputTokens]
                [] OTHER -> Usage
       /\ callers' = [callers EXCEPT ![t] =
              CASE c.at = "user_w" -> [@ EXCEPT !.at = "prompt"]
                [] c.at = "reply_w" -> [@ EXCEPT !.at = "in_r", !.appended = Messages']
                [] c.at = "in_w" -> [@ EXCEPT !.at = "out_r"]
                [] c.at = "out_w" -> [@ EXCEPT !.at = "done"]]
       /\ UNCHANGED <<System, ApiToken, Settings, single>>

\* caller t builds its prompt from the history as it stands
RaceBuildPrompt(t) ==
    /\ callers[t].at = "prompt"
    /\ callers' = [callers EXCEPT ![t] = [@ EXCEPT !.at = "http", !.built = Messages]]
    /\ UNCHANGED <<conv, single>>

\* caller t has the provider's answer o to the prompt it built and decodes it
RaceAnswer(t, o) ==
    /\ callers[t].at = "http"
    /\ LET r == SendPost(callers[t].built, Usage, o)
       IN callers' = [callers EXCEPT ![t] =
              [@ EXCEPT !.at = IF r.err # NoErr THEN "done" ELSE "reply_r",
                        !.r = [op |-> "Send", reply |-> r.reply,
                               stopReason |-> r.stopReason,
                               inputTokens |-> r.inputTokens,
                               outputTokens |-> r.outputTokens, err |-> r.err]]]
    /\ UNCHANGED <<conv, single>>

InitRace ==
    /\ NewConversation(<<>>)
    /\ ApiToken = "tok"
    /\ sse = Stream(<<>>, FALSE, FALSE)

NextRace ==
    \/ \E t \in Callers, text \in RaceTexts : RaceSend(t, text)
    \/ \E t \in Callers : RaceRead(t)
    \/ \E t \in Callers : RaceWrite(t)
    \/ \E t \in Callers : RaceBuildPrompt(t)
    \/ \E t \in Callers, o \in RaceOutcomes : RaceAnswer(t, o)

SpecRace == InitRace /\ [][NextRace]_vars

PromptSystems == {<<>>, <<"s", "y", "s">>}
PromptMessages ==
    {Message("user", <<"H", "e", "l", "l", "o">>), Message("user", <<>>),
     Message("assistant", <<"a">>), Message("system", <<"n">>),
     Message("tool", <<"t">>)}

InitPrompt ==
    /\ \E system \in PromptSystems : NewConversation(system)
    /\ ApiToken = "tok"
    /\ sse = Stream(<<>>, FALSE, FALSE)

NextPrompt ==
    \/ \E m \in PromptMessages : AddMessage(m.Role, m.Content)
    \/ \E thinking \in BOOLEAN : SetThinking(thinking)
    \/ \E tf \in ThinkFormatPointers : SetThinkFormat(tf)
    \/ BuildPrompt

SpecPrompt == InitPrompt /\ [][NextPrompt]_vars

\* the lines a stream handed to parseSSEStream on its own is made of
ParseLines ==
    {DataLine(<<"H", "e", "l">>, Null), DataLine(<<"l", "o">>, "stop"),
     DataLine(<<>>, "length"), DataLine(<<"!">>, ""),
     DoneLine, OtherLine, MalformedLine, NoChoicesLine}

\* the lines parseSSEStream passes over
SkippedLines == {OtherLine, MalformedLine, NoChoicesLine}

\* the place of the first [DONE] line, behind the last line when there is none
FirstDone(lines) ==
    IF \E i \in 1..Len(lines) : lines[i] = DoneLine
    THEN CHOOSE i \in 1..Len(lines) :
             lines[i] = DoneLine /\ \A j \in 1..(i - 1) : lines[j] # DoneLine
    ELSE Len(lines) + 1

InsertAt(lines, i, line) ==
    SubSeq(lines, 1, i - 1) \o <<line>> \o SubSeq(lines, i, Len(lines))

\* a stream is parsed on its own: the reader and the caller are picked first
InitParse ==
    /\ InitConversation
    /\ System = <<>>
    /\ ApiToken = ""
    /\ \E readErr \in BOOLEAN, hasCallback \in BOOLEAN :
           sse = Stream(<<>>, readErr, hasCallback)

\* the same stream with one more line at its end, parsed
ReadLine(line) ==
    /\ ~sse.inserted
    /\ Len(sse.lines) < MaxLines
    /\ sse' = Stream(Append(sse.lines, line), sse.readErr, sse.callback)
    /\ UNCHANGED <<conv, op, pc, input, attempt, httpReq, loop, ret, pre, sent,
                   calls, cblog, ctx,
                   lastPrompt, callers, scanned>>

\* the same stream with a line that parseSSEStream passes over put in at place
\* i, not behind its [DONE] line, parsed; the result without the line is kept
InsertLine(i, line) ==
    /\ ~sse.inserted
    /\ i \in 1..FirstDone(sse.lines)
    /\ sse' = [Stream(InsertAt(sse.lines, i, line), sse.readErr, sse.callback)
                   EXCEPT !.inserted = TRUE, !.was = sse.out]
    /\ UNCHANGED <<conv, op, pc, input, attempt, httpReq, loop, ret, pre, sent,
                   calls, cblog, ctx,
                   lastPrompt, callers, scanned>>

NextParse ==
    \/ \E line \in ParseLines : ReadLine(line)
    \/ \E i \in 1..(MaxLines + 1), line \in SkippedLines : InsertLine(i, line)

SpecParse == InitParse /\ [][NextParse]_vars

-----------------------------------------------------------------------------
(* Properties *)

\* the operation `name` has returned to its caller
Returned(name) == op = "idle" /\ ret.op = name

\* the strings of a sequence joined in order
RECURSIVE Concat(_)
Concat(ss) == IF ss = <<>> THEN <<>> ELSE Head(ss) \o Concat(Tail(ss))

\* the replies of the underlying calls of the operation, in call order
PartialReplies == [i \in 1..Len(calls) |-> calls[i].reply]

\* C1: SendUntilDone and SendStreamingUntilDone hand their underlying call the
\* caller's text first and the empty text on every later round; they go round
\* again only after a call that returned "max_tokens" without error, so a
\* successful return comes right after the first call whose normalized stop
\* reason is something else, and the reply returned is the concatenation of the
\* replies of all the calls made, in order.
C1_UntilDoneLoop ==
    Looping(pre.op) =>
        /\ \A i \in 1..Len(calls) :
               calls[i].input = (IF i = 1 THEN pre.text ELSE <<>>)
        /\ \A i \in 1..(Len(calls) - 1) :
               calls[i].err = NoErr /\ calls[i].stopReason = "max_tokens"
        /\ op # "idle" =>
               /\ input = (IF calls = <<>> THEN pre.text ELSE <<>>)
               /\ \A i \in 1..Len(calls) :
                      calls[i].err = NoErr /\ calls[i].stopReason = "max_tokens"
        /\ op = "idle" /\ ret.err = NoErr =>
               /\ Len(calls) >= 1
               /\ calls[Len(calls)].err = NoErr
               /\ calls[Len(calls)].stopReason # "max_tokens"
               /\ ret.reply = Concat(PartialReplies)

\* SendUntilDone returned after three calls, two truncated and one complete,
\* whose replies are not all the same
C1_Witness ==
    /\ Returned("SendUntilDone") /\ ret.err = NoErr
    /\ Len(calls) = 3
    /\ pre.text # <<>>
    /\ calls[1].reply # calls[2].reply
    /\ calls[3].stopReason = "end_turn"

\* the history ends in two assistant turns
LastTwoAssistant(h) ==
    /\ Len(h) >= 2
    /\ h[Len(h)].Role = "assistant"
    /\ h[Len(h) - 1].Role = "assistant"

\* C2: MergeIfLastTwoAssistant changes the history exactly when it has at least
\* two entries and the last two are both assistant turns; then the history is
\* one entry shorter, the earlier of the two holds its own content without
\* trailing " \t\n\r" followed by the later one's content trimmed of white
\* space on both sides, and the entries before the pair are untouched.
C2_MergeEffect ==
    pre.op = "MergeIfLastTwoAssistant" =>
        LET h == pre.Messages
            n == Len(h)
        IN /\ (Messages # h) <=> LastTwoAssistant(h)
           /\ LastTwoAssistant(h) =>
                  /\ Len(Messages) = n - 1
                  /\ Messages[n - 1].Role = "assistant"
                  /\ Messages[n - 1].Content =
                         TrimRight(h[n - 1].Content, {" ", "\t", "\n", "\r"})
                         \o TrimSpace(h[n].Content)
                  /\ \A i \in 1..(n - 2) : Messages[i] = h[i]

\* a merge of "\va\f" and "a " behind a user turn: the form feed at the end of
\* the earlier turn stays, the white space around the later turn goes
C2_Witness ==
    /\ pre.op = "MergeIfLastTwoAssistant"
    /\ Len(pre.Messages) = 3
    /\ pre.Messages[1].Role = "user"
    /\ pre.Messages[2] = Message("assistant", <<VT, "a", "\f">>)
    /\ pre.Messages[3] = Message("assistant", <<"a", " ">>)
    /\ Messages = <<pre.Messages[1], Message("assistant", <<VT, "a", "\f", "a">>)>>

\* the history ends in three assistant turns
LastThreeAssistant(h) ==
    /\ LastTwoAssistant(h)
    /\ Len(h) >= 3
    /\ h[Len(h) - 2].Role = "assistant"

\* C3 as stated: on every non-empty history a second MergeIfLastTwoAssistant
\* right after the first changes nothing.
C3_Idempotent ==
    (pre.op = "MergeIfLastTwoAssistant" /\ pre.again /\ pre.first # <<>>)
        => Messages = pre.Messages

\* C3, amended: on every non-empty history that does not end in three assistant
\* turns a second MergeIfLastTwoAssistant right after the first changes nothing.
C3_IdempotentUnlessThree ==
    (pre.op = "MergeIfLastTwoAssistant" /\ pre.again /\ pre.first # <<>>
     /\ ~LastThreeAssistant(pre.first))
        => Messages = pre.Messages

\* the first of two calls in a row merged a pair behind another turn, and the
\* second one has returned
C3_Witness ==
    /\ pre.op = "MergeIfLastTwoAssistant" /\ pre.again
    /\ Len(pre.first) = 3
    /\ LastTwoAssistant(pre.first) /\ ~LastThreeAssistant(pre.first)
    /\ pre.Messages # pre.first
    /\ Messages = pre.Messages

\* the table of section 6
StopReasonTable(f) ==
    IF f = "stop" THEN "end_turn"
    ELSE IF f = "length" THEN "max_tokens"
    ELSE IF f = "tool_calls" THEN "tool_use"
    ELSE f

\* C4: normalizeStopReason maps "stop" to "end_turn", "length" to "max_tokens",
\* "tool_calls" to "tool_use" and every other reason, the empty one included, to
\* itself; the stop reason that Send or SendStreaming returns, on any path, is
\* the image under this table of the finish reason it had from the provider
\* (the empty reason when the provider gave none). (SendStreaming returns the
\* reason as parseSSEStream gave it when the stream broke: "stop" stays "stop".)
C4_NormalizedStopReason ==
    /\ \A f \in FinishReasons : normalizeStopReason(f) = StopReasonTable(f)
    /\ \A name \in {"Send", "SendStreaming"} :
           Returned(name)
               => ret.stopReason
                      = StopReasonTable(IF calls = <<>> THEN "" ELSE calls[1].obs.finish)

\* C5: a successful Send with non-empty text leaves the history it found plus a
\* user turn with the text plus an assistant turn with the reply; with empty
\* text on a non-empty history it leaves the history plus the assistant turn
\* only. It returns the provider's reply text, the normalized stop reason and
\* the provider's token counts, and cumulative usage grows by those counts.
C5_SendSuccess ==
    (Returned("Send") /\ ret.err = NoErr) =>
        LET o == calls[1].obs
            assistant == Message("assistant", o.text)
        IN /\ pre.text # <<>> =>
                  Messages = pre.Messages \o <<Message("user", pre.text), assistant>>
           /\ pre.text = <<>> =>
                  /\ pre.Messages # <<>>
                  /\ Messages = pre.Messages \o <<assistant>>
           /\ ret.reply = o.text
           /\ ret.stopReason = StopReasonTable(o.finish)
           /\ ret.inputTokens = o.usage.PromptTokens
           /\ ret.outputTokens = o.usage.CompletionTokens
           /\ Usage.InputTokens = pre.Usage.InputTokens + o.usage.PromptTokens
           /\ Usage.OutputTokens = pre.Usage.OutputTokens + o.usage.CompletionTokens

\* a successful Send of a text on a conversation that had used tokens before
C5_Witness ==
    /\ Returned("Send") /\ ret.err = NoErr
    /\ pre.text # <<>>
    /\ pre.Usage.OutputTokens > 0
    /\ ret.inputTokens > 0 /\ ret.outputTokens > 0
    /\ Len(Messages) = Len(pre.Messages) + 2

\* C6: a Send with non-empty text and a credential that fails after the user
\* turn was appended (no response after all attempts, a failed read, a status
\* other than 200, an undecodable body, no choices) leaves the history it found
\* plus the user turn and nothing else, leaves usage as it was, and leaves the
\* conversation ready for the next call.
C6_SendFailureKeepsUserTurn ==
    (pre.op = "Send" /\ pre.text # <<>> /\ ApiToken # ""
     /\ calls # <<>> /\ calls[1].err # NoErr) =>
        /\ Returned("Send") /\ pc = "idle"
        /\ ret.err = calls[1].err
        /\ Messages = Append(pre.Messages, Message("user", pre.text))
        /\ Usage = pre.Usage
        /\ ENABLED Clear

\* Send of a text failed on a response without choices, on a conversation
\* that had a history and had used tokens
C6_Witness ==
    /\ Returned("Send") /\ ret.err # NoErr
    /\ pre.text # <<>> /\ pre.Messages # <<>>
    /\ calls[1].obs.kind = "nochoices"
    /\ pre.Usage.OutputTokens > 0
    /\ Len(Messages) = Len(pre.Messages) + 1

\* C7: with an empty credential Send and SendStreaming return an error at
\* once: no request is built or sent, no user turn is appended and usage is
\* unchanged.
C7_NoTokenNoRequest ==
    (pre.op \in {"Send", "SendStreaming"} /\ ApiToken = "") =>
        /\ pc # "http" /\ httpReq = NoReq /\ sent = <<>>
        /\ Messages = pre.Messages
        /\ Usage = pre.Usage
        /\ calls # <<>> => (Returned(pre.op) /\ ret.err # NoErr)

\* Send of a text without a credential returned its error on a conversation
\* with a history
C7_Witness ==
    /\ Returned("Send") /\ ret.err # NoErr
    /\ ApiToken = ""
    /\ pre.text # <<>> /\ pre.Messages # <<>>
    /\ Messages = pre.Messages

\* C8: Send and SendStreaming with empty text on an empty history return an
\* error without any request and leave the history empty; with empty text on a
\* non-empty history (and a credential) they append no user turn and go on to
\* the request, whatever the role of the last entry.
C8_EmptyInput ==
    (pre.op \in {"Send", "SendStreaming"} /\ pre.text = <<>>) =>
        /\ pre.Messages = <<>> =>
               /\ pc # "http" /\ sent = <<>>
               /\ Messages = <<>>
               /\ calls # <<>> => (Returned(pre.op) /\ ret.err # NoErr)
        /\ (pre.Messages # <<>> /\ ApiToken # "") =>
               /\ pc = "http" => Messages = pre.Messages
               /\ calls # <<>> =>
                      /\ sent # <<>>
                      /\ calls[1].obs.kind # "none"
                      /\ \/ Messages = pre.Messages
                         \/ Messages = Append(pre.Messages, Message("assistant", ret.reply))

\* SendStreaming with empty text answered a history that ends in a system turn
C8_Witness ==
    /\ Returned("SendStreaming") /\ ret.err = NoErr
    /\ pre.text = <<>>
    /\ pre.Messages # <<>>
    /\ pre.Messages[Len(pre.Messages)].Role = "system"
    /\ Messages = Append(pre.Messages, Message("assistant", ret.reply))

\* Send was asked to continue, with a credential, a history that does not end
\* in an assistant turn
ContinuesWithoutAssistant ==
    /\ Returned("Send")
    /\ pre.text = <<>> /\ ApiToken # ""
    /\ pre.Messages # <<>>
    /\ pre.Messages[Len(pre.Messages)].Role # "assistant"

\* C9 as stated: Send with empty text and a credential returns an error when
\* the history is non-empty and its last entry is not an assistant turn.
C9_ContinueNeedsAssistant == ContinuesWithoutAssistant => ret.err # NoErr

\* C9, amended: Send with empty text and a credential on a non-empty history
\* whose last entry is not an assistant turn sends the request all the same,
\* and returns an error exactly when the exchange with the provider fails;
\* when the provider answers with a choice it appends the reply as an
\* assistant turn and returns without error.
C9_ContinueAnswersLastTurn ==
    ContinuesWithoutAssistant =>
        /\ sent # <<>>
        /\ (ret.err # NoErr) <=> (calls[1].obs.kind # "ok")
        /\ calls[1].obs.kind = "ok" =>
               Messages = Append(pre.Messages, Message("assistant", calls[1].obs.text))

\* Send with empty text answered a history that ends in a user turn
C9_Witness ==
    /\ ContinuesWithoutAssistant /\ ret.err = NoErr
    /\ pre.Messages[Len(pre.Messages)].Role = "user"
    /\ ret.reply # <<>>
    /\ Len(Messages) = Len(pre.Messages) + 1

\* the request objects handed to the HTTP client so far carry the same body and
\* headers, and each is another object than the ones before it
FreshSameRequests(reqs) ==
    \A i \in 1..Len(reqs) :
        /\ reqs[i].body = reqs[1].body
        /\ reqs[i].headers = reqs[1].headers
        /\ \A j \in 1..Len(reqs) : i # j => reqs[i].id # reqs[j].id

\* C10: one Send or SendStreaming makes at most retries + 1 = 4 HTTP attempts;
\* an attempt is followed by another only when it failed at the transport, so
\* the first response ends the loop; when all four fail the call returns an
\* error; every retry hands the client a newly built request with the body and
\* headers of the first.
C10_RetryLoop ==
    pre.op \in {"Send", "SendStreaming"} =>
        /\ Len(sent) <= 4
        /\ \A i \in 1..(Len(sent) - 1) : sent[i].outcome = "error"
        /\ FreshSameRequests([i \in 1..Len(sent) |-> sent[i].req])
        /\ pc = "http" =>
               /\ Len(sent) < 4
               /\ \A i \in 1..Len(sent) : sent[i].outcome = "error"
               /\ FreshSameRequests(Append([i \in 1..Len(sent) |-> sent[i].req], httpReq))
        /\ (op = "idle" /\ sent # <<>> /\ sent[Len(sent)].outcome = "error") =>
               /\ Len(sent) = 4
               /\ ret.err # NoErr

\* Send got its response on the fourth attempt, after three transport failures
C10_Witness ==
    /\ Returned("Send") /\ ret.err = NoErr
    /\ Len(sent) = 4
    /\ sent[3].outcome = "error"
    /\ sent[4].outcome = "ok"

\* the history the operation found, with the user turn it appends for its text
WithUserTurn ==
    IF pre.text # <<>> THEN Append(pre.Messages, Message("user", pre.text))
    ELSE pre.Messages

\* the response that ended the retry loop has another status than 200
StatusRefused ==
    /\ sent # <<>>
    /\ sent[Len(sent)].outcome = "ok"
    /\ sent[Len(sent)].resp.status # 200

\* C11: a response with a status other than success ends the retry loop of
\* Send and SendStreaming (no attempt follows it); the call returns an error
\* made of the status code and the raw body, appends no assistant turn and
\* leaves usage as it was. (Send reads the body before it looks at the status:
\* when that read fails it returns "error reading response: ..." with neither
\* the status code nor the body, where SendStreaming, which ignores the error
\* of the read, reports the status.)
C11_StatusErrorIsFinal ==
    pre.op \in {"Send", "SendStreaming"} =>
        /\ \A i \in 1..Len(sent) :
               (sent[i].outcome = "ok" /\ sent[i].resp.status # 200)
                   => (i = Len(sent) /\ Returned(pre.op))
        /\ StatusRefused =>
               LET resp == sent[Len(sent)].resp
               IN /\ ret.err # NoErr
                  /\ Len(ret.err) = 4
                  /\ ret.err[2] = resp.status
                  /\ ret.err[4] = (IF Streaming(pre.op) THEN resp.body.lines
                                   ELSE resp.body.raw)
                  /\ Messages = WithUserTurn
                  /\ Usage = pre.Usage

\* C12: an attempt of Send or SendStreaming that fails because the cancellation
\* signal fired is the last attempt of the call: no retry delay is waited after
\* it, no attempt follows it, and the call returns the cancellation error.
\* An attempt that fails for another reason and is not the last allowed one is
\* followed by the delay and another attempt or by the abort.
C12_CancellationIsTerminal ==
    pre.op \in {"Send", "SendStreaming"} =>
        \A i \in 1..Len(sent) :
            /\ sent[i].outcome = "cancelled" =>
                   /\ i = Len(sent)
                   /\ ~sent[i].slept
                   /\ Returned(pre.op)
                   /\ ret.err = CancellationError
                   /\ Len(calls) = 1
            /\ (sent[i].outcome = "error" /\ i < 4) => sent[i].slept

\* Send lost its first attempt to a transport failure and its second to the
\* signal, and has returned
C12_Witness ==
    /\ Returned("Send")
    /\ Len(sent) = 2
    /\ sent[1].outcome = "error" /\ sent[1].slept
    /\ sent[2].outcome = "cancelled"
    /\ ret.err = CancellationError

\* the operation was started with a credential, something to send and a signal
\* that was cancelled already
StartedCancelled ==
    /\ pre.op \in {"Send", "SendStreaming"}
    /\ pre.ctx = "cancelled"
    /\ ApiToken # ""
    /\ pre.text # <<>> \/ pre.Messages # <<>>

\* C13: Send (and SendStreaming) on a Conversation whose cancellation signal is
\* cancelled already makes no HTTP attempt and returns the cancellation error.
C13_PreCancelledNoAttempt ==
    StartedCancelled =>
        /\ sent = <<>>
        /\ calls # <<>> =>
               /\ Returned(pre.op)
               /\ ret.err = CancellationError
               /\ calls[1].obs.kind = "cancelled"

\* Send of a text returned the cancellation error under a signal that was
\* cancelled before the call
C13_Witness ==
    /\ StartedCancelled
    /\ Returned("Send")
    /\ pre.text # <<>>
    /\ sent = <<>>
    /\ ret.err = CancellationError

\* C14: when an underlying call of SendUntilDone or SendStreamingUntilDone
\* returns an error, no call follows it, and the loop returns that error with
\* the concatenation of the replies of the calls before it, all of which
\* succeeded (the empty text when the first call failed).
C14_LoopReturnsFirstError ==
    Looping(pre.op) =>
        \A i \in 1..Len(calls) :
            calls[i].err # NoErr =>
                /\ i = Len(calls)
                /\ Returned(pre.op)
                /\ ret.err = calls[i].err
                /\ \A j \in 1..(i - 1) : calls[j].err = NoErr
                /\ ret.reply = Concat([j \in 1..(i - 1) |-> calls[j].reply])

\* SendStreamingUntilDone returned the text of its first call with the error
\* of its second, whose stream broke after some text
C14_Witness ==
    /\ Returned("SendStreamingUntilDone")
    /\ Len(calls) = 2
    /\ calls[2].err # NoErr
    /\ calls[2].reply # <<>>
    /\ calls[1].reply # <<>>
    /\ ret.reply = calls[1].reply
    /\ ret.err = calls[2].err

\* the line is a chunk that decodes and has a choice
HasChoice(line) == line.kind = "chunk" /\ line.Choices # <<>>

\* the text of the first choices of the chunks among the first n lines, joined
TextUpTo(lines, n) ==
    Concat([i \in 1..n |-> IF HasChoice(lines[i]) THEN lines[i].Choices[1].Text
                           ELSE <<>>])

\* the finish_reason of the last chunk among the first n lines that has a
\* non-empty one, the empty string when none has
ReasonUpTo(lines, n) ==
    LET S == {i \in 1..n : /\ HasChoice(lines[i])
                           /\ lines[i].Choices[1].FinishReason \notin {Null, ""}}
    IN IF S = {} THEN ""
       ELSE lines[CHOOSE i \in S : \A j \in S : j <= i].Choices[1].FinishReason

\* the callback invocations for the first n lines: one per chunk with text
IncrementsUpTo(lines, n) ==
    LET texts == [i \in 1..n |-> IF HasChoice(lines[i]) THEN lines[i].Choices[1].Text
                                 ELSE <<>>]
        calledBack == SelectSeq(texts, LAMBDA t : t # <<>>)
    IN [i \in 1..Len(calledBack) |-> <<calledBack[i], FALSE>>]

\* C15: at a data line [DONE] parseSSEStream calls the callback once with the
\* empty increment and done=true and stops: the result is made of the lines
\* before it only (text, stop reason, callbacks), whatever follows; there is
\* an error only when the scanner holds a failed Read.
C15_DoneEndsStream ==
    LET d == FirstDone(sse.lines)
    IN d <= Len(sse.lines) =>
           /\ sse.out.fullText = TextUpTo(sse.lines, d - 1)
           /\ sse.out.stopReason = ReasonUpTo(sse.lines, d - 1)
           /\ sse.out.err = NoErr <=> ~sse.readErr
           /\ sse.out.callbacks =
                  (IF sse.callback
                   THEN Append(IncrementsUpTo(sse.lines, d - 1), <<<<>>, TRUE>>)
                   ELSE <<>>)

\* a stream with a chunk behind its [DONE] line, parsed for a caller with a
\* callback
C15_Witness ==
    /\ sse.lines = <<DataLine(<<"H", "e", "l">>, Null), DoneLine,
                     DataLine(<<"l", "o">>, "stop")>>
    /\ sse.callback
    /\ sse.out.fullText = <<"H", "e", "l">>
    /\ sse.out.stopReason = ""
    /\ sse.out.callbacks = << <<<<"H", "e", "l">>, FALSE>>, <<<<>>, TRUE>> >>

\* the stream is a sequence of chunks with a choice each, ended by [DONE]
WellFormed(lines) ==
    /\ Len(lines) >= 1
    /\ lines[Len(lines)] = DoneLine
    /\ \A i \in 1..(Len(lines) - 1) : HasChoice(lines[i])

\* C16: for chunks with a choice each followed by [DONE], parseSSEStream
\* returns the texts of the chunks joined in stream order and the last
\* non-empty finish_reason, not normalized (the empty string when there was
\* none); "Hel", then "lo" with "stop", then [DONE] give "Hello", "stop" and a
\* last callback with done=true. There is an error only when the scanner holds
\* a failed Read.
C16_TextAndLastReason ==
    /\ WellFormed(sse.lines) =>
           /\ sse.out.fullText = TextUpTo(sse.lines, Len(sse.lines) - 1)
           /\ sse.out.stopReason = ReasonUpTo(sse.lines, Len(sse.lines) - 1)
           /\ sse.out.err = NoErr <=> ~sse.readErr
           /\ sse.callback =>
                  sse.out.callbacks[Len(sse.out.callbacks)] = <<<<>>, TRUE>>
    /\ sse.lines = <<DataLine(<<"H", "e", "l">>, Null),
                     DataLine(<<"l", "o">>, "stop"), DoneLine>> =>
           /\ sse.out.fullText = <<"H", "e", "l", "l", "o">>
           /\ sse.out.stopReason = "stop"

\* two chunks with finish reasons "stop" and then "length": the later one is
\* returned, as the provider gave it
C16_Witness ==
    /\ sse.lines = <<DataLine(<<"l", "o">>, "stop"), DataLine(<<>>, "length"), DoneLine>>
    /\ sse.callback
    /\ sse.out.fullText = <<"l", "o">>
    /\ sse.out.stopReason = "length"

\* C17: a line without the data prefix, a data line that does not decode or a
\* chunk without choices, put anywhere before [DONE], changes nothing of what
\* parseSSEStream returns (text, stop reason, error) nor of the callbacks it
\* makes.
C17_SkippedLinesChangeNothing ==
    sse.inserted =>
        /\ sse.out.fullText = sse.was.fullText
        /\ sse.out.stopReason = sse.was.stopReason
        /\ sse.out.err = sse.was.err
        /\ sse.out.callbacks = sse.was.callbacks

\* a line that does not decode was put between the two chunks of "Hello"
C17_Witness ==
    /\ sse.inserted
    /\ sse.lines = <<DataLine(<<"H", "e", "l">>, Null), MalformedLine,
                     DataLine(<<"l", "o">>, "stop"), DoneLine>>
    /\ sse.callback
    /\ sse.out.fullText = <<"H", "e", "l", "l", "o">>
    /\ sse.out.err = NoErr

\* the stream of the call's last attempt broke while it was read
StreamBroke == calls # <<>> /\ calls[1].obs.kind = "read"

\* C18: when the reader fails while the stream is read, SendStreaming returns
\* the read error with the text and the stop reason the stream gave until
\* then (as parseSSEStream returns them, not normalized), appends no assistant
\* turn and leaves the usage counters as they were.
C18_BrokenStream ==
    Returned("SendStreaming") /\ StreamBroke =>
        LET body == sent[Len(sent)].resp.body
        IN /\ ret.err = <<"error reading stream: ", "read">>
           /\ ret.reply = TextUpTo(body.lines, Len(body.lines))
           /\ ret.stopReason = ReasonUpTo(body.lines, Len(body.lines))
           /\ ret.inputTokens = 0 /\ ret.outputTokens = 0
           /\ Messages = WithUserTurn
           /\ Usage = pre.Usage

\* a stream broke behind a chunk with text "b " and finish reason "stop"
C18_Witness ==
    /\ Returned("SendStreaming")
    /\ StreamBroke
    /\ pre.text # <<>>
    /\ ret.reply = <<"b", " ">>
    /\ ret.stopReason = "stop"
    /\ ret.err # NoErr

\* the non-empty increments the callback was given, joined in call order
Increments ==
    LET given == SelectSeq(cblog, LAMBDA c : c[1] # <<>>)
    IN Concat([i \in 1..Len(given) |-> given[i][1]])

\* C19: in a SendStreaming call with a callback the non-empty increments the
\* callback was given, joined in call order, are the reply the call returns,
\* and the assistant turn appended on success holds that string.
C19_ConcatenationLaw ==
    Returned("SendStreaming") /\ pre.callback =>
        /\ Increments = ret.reply
        /\ ret.err = NoErr =>
               /\ Messages # <<>>
               /\ Messages[Len(Messages)] = Message("assistant", ret.reply)
               /\ Messages = Append(WithUserTurn, Message("assistant", Increments))

\* a call whose callback was given "b ", " c" and the end of the stream
C19_Witness ==
    /\ Returned("SendStreaming")
    /\ pre.callback
    /\ cblog = << <<<<"b", " ">>, FALSE>>, <<<<" ", "c">>, FALSE>>, <<<<>>, TRUE>> >>
    /\ ret.reply = <<"b", " ", " ", "c">>
    /\ ret.err = NoErr

\* the provider's answer with this reply text and finish reason, to Send and
\* to SendStreaming
AnswerJson(text, finish) ==
    [transport |-> "ok", status |-> StatusOK, readErr |-> FALSE,
     body |-> JsonBody(text, finish, NoTokens)]
AnswerStream(text, finish) ==
    [transport |-> "ok", status |-> StatusOK,
     body |-> [lines |-> <<DataLine(text, finish), DoneLine>>, readErr |-> FALSE]]

\* C20: SendStreaming and Send have the same logic before and after the
\* request. A call of one that returned fails before any attempt exactly when
\* the other's checks refuse the same token, history and text, with the same
\* error; and when the provider gave a reply text and a finish reason, the
\* history it leaves, the reply and the normalized stop reason are those the
\* other computes for the same history, text and provider output.
C20_SamePrePost ==
    /\ Returned("SendStreaming") =>
           LET p == SendPre(ApiToken, pre.Messages, pre.text)
               o == calls[1].obs
               a == SendPost(p.Messages, pre.Usage, AnswerJson(o.text, o.finish))
           IN /\ p.err # NoErr <=> sent = <<>>
              /\ p.err # NoErr => ret.err = p.err /\ Messages = p.Messages
              /\ o.kind = "ok" =>
                     /\ Messages = a.Messages
                     /\ ret.reply = a.reply
                     /\ ret.stopReason = a.stopReason
                     /\ ret.err = a.err
    /\ Returned("Send") =>
           LET p == SendStreamingPre(ApiToken, pre.Messages, pre.text)
               o == calls[1].obs
               a == SendStreamingPost(p.Messages, pre.Usage,
                                      AnswerStream(o.text, o.finish), FALSE).r
           IN /\ p.err # NoErr <=> sent = <<>>
              /\ p.err # NoErr => ret.err = p.err /\ Messages = p.Messages
              /\ o.kind = "ok" =>
                     /\ Messages = a.Messages
                     /\ ret.reply = a.reply
                     /\ ret.stopReason = a.stopReason
                     /\ ret.err = a.err

\* a SendStreaming call that continued a history ending in a user turn and was
\* answered "b " and " c" with finish reason "stop" in two chunks
C20_Witness ==
    /\ Returned("SendStreaming")
    /\ pre.text = <<>>
    /\ pre.Messages # <<>>
    /\ calls[1].obs.kind = "ok"
    /\ ret.reply = <<"b", " ", " ", "c">>
    /\ ret.stopReason = "end_turn"
    /\ Messages = Append(pre.Messages, Message("assistant", ret.reply))

\* the estimate of the tokens of a reply of n bytes
EstimateOf(n) == IF n = 0 THEN 0 ELSE IF n < 4 THEN 1 ELSE n \div 4

\* C21: a SendStreaming call that succeeds reports as output tokens the
\* completion count of the stream's usage report when the stream has one, and
\* otherwise the estimate: a quarter of the reply's length rounded down, 1 for a
\* reply of one to three bytes, 0 for the empty reply. What it reports is what
\* it adds to the cumulative OutputTokens. (SendStreaming never reads
\* streamChunk.Usage: it reports the estimate for every stream.)
C21_OutputTokens ==
    Returned("SendStreaming") /\ ret.err = NoErr =>
        LET body == sent[Len(sent)].resp.body
        IN /\ ret.outputTokens = (IF HasUsage(body) THEN ReportedUsage(body).CompletionTokens
                                  ELSE EstimateOf(Len(ret.reply)))
           /\ Usage.OutputTokens = pre.Usage.OutputTokens + ret.outputTokens

\* the prompt formatter was the last operation, and what it returned is in
\* lastPrompt
Formatted == Returned("buildPrompt")

\* how often a piece occurs in a prompt
Count(p, piece) == Cardinality({i \in DOMAIN p : p[i] = piece})

\* the suffix and the prefill buildPrompt writes when thinking is disabled,
\* whatever Settings.ThinkFormat points to
WrittenSuffix == <<glmNoThink>>
WrittenPrefix == <<"<think>", "</think>", "\n">>

\* every entry of the history has one of the three roles the format knows
KnownRoles(msgs) ==
    \A i \in 1..Len(msgs) : msgs[i].Role \in {"user", "assistant", "system"}

RoleDelimiter(role) ==
    CASE role = "user" -> "<|user|>"
      [] role = "assistant" -> "<|assistant|>"
      [] role = "system" -> "<|system|>"

\* a delimiter, a newline, a content and a newline
Block(delimiter, content) == <<delimiter, "\n">> \o content \o <<"\n">>

\* the prompt without suffix and prefill
Framing(system, msgs) ==
    <<"[gMASK]<sop>">>
    \o (IF system # <<>> THEN Block("<|system|>", system) ELSE <<>>)
    \o Concat([i \in 1..Len(msgs) |-> Block(RoleDelimiter(msgs[i].Role), msgs[i].Content)])
    \o <<"<|assistant|>", "\n">>

\* the pieces that are a suffix or part of a prefill
SuffixPieces == {"/nothink", "/custom"}
PrefixPieces == {"<think>", "</think>", "<custom/>"}

\* C22: what buildPrompt returns is, in this order, the prefix "[gMASK]<sop>",
\* the system block (delimiter, newline, system prompt, newline) exactly when
\* the system prompt is not empty, one block per history entry in history
\* order under the entry's own role delimiter, consecutive system entries
\* included, and the trailing "<|assistant|>" and newline; with thinking
\* disabled the suffix and the prefill come on top of that and nothing else.
C22_PromptOrder ==
    Returned("buildPrompt") /\ KnownRoles(Messages) =>
        LET prefill == IF Settings.Thinking THEN 0 ELSE Len(WrittenPrefix)
            framed == SubSeq(lastPrompt, 1, Len(lastPrompt) - prefill)
        IN SelectSeq(framed, LAMBDA piece : piece \notin SuffixPieces)
               = Framing(System, Messages)

\* two system entries in a row and a user turn under the system prompt "sys",
\* formatted with thinking enabled
C22_Witness ==
    /\ Returned("buildPrompt")
    /\ Settings.Thinking
    /\ Messages = <<Message("system", <<"n">>), Message("system", <<"n">>),
                    Message("user", <<"H", "e", "l", "l", "o">>)>>
    /\ lastPrompt = <<"[gMASK]<sop>", "<|system|>", "\n", "s", "y", "s", "\n",
                      "<|system|>", "\n", "n", "\n", "<|system|>", "\n", "n", "\n",
                      "<|user|>", "\n", "H", "e", "l", "l", "o", "\n",
                      "<|assistant|>", "\n">>

\* C23: with thinking disabled the formatter writes the user suffix once,
\* directly behind the content of the last entry, when that entry is a user
\* turn, and not at all when the history is empty or ends with another entry.
C23_SuffixOnLastUserTurn ==
    Formatted /\ ~Settings.Thinking =>
        LET lastIsUser == Messages # <<>> /\ Messages[Len(Messages)].Role = "user"
            written == Cardinality({i \in DOMAIN lastPrompt : lastPrompt[i] \in SuffixPieces})
            k == Len(lastPrompt) - Len(WrittenPrefix) - 3
            content == Messages[Len(Messages)].Content
        IN IF lastIsUser /\ WrittenSuffix # <<>>
           THEN /\ written = 1
                /\ lastPrompt[k] = WrittenSuffix[1]
                /\ SubSeq(lastPrompt, k - Len(content), k - 1) = content
                /\ lastPrompt[k - Len(content) - 1] = "\n"
                /\ lastPrompt[k - Len(content) - 2] = "<|user|>"
                /\ SubSeq(lastPrompt, k + 1, k + 3) = <<"\n", "<|assistant|>", "\n">>
           ELSE written = 0

\* two user turns, the suffix behind the second one only
C23_Witness ==
    /\ Returned("buildPrompt")
    /\ ~Settings.Thinking
    /\ Messages = <<Message("user", <<>>), Message("user", <<"H", "e", "l", "l", "o">>)>>
    /\ Count(lastPrompt, "/nothink") = 1
    /\ lastPrompt[Len(lastPrompt) - 6] = "/nothink"
    /\ lastPrompt[Len(lastPrompt) - 7] = "o"

\* C24: with thinking disabled buildPrompt writes the effective policy's
\* UserSuffix and AssistantPrefix: what stands behind the trailing assistant
\* delimiter and its newline is the AssistantPrefix and nothing else, which is
\* "</think>" under ThinkFormatGLM47; under ThinkFormatNone the prompt has
\* neither "/nothink" nor "</think>". (buildPrompt never reads
\* Settings.ThinkFormat: it writes glmNoThink and "<think></think>\n" under
\* every policy.)
C24_PolicyPrefill ==
    Returned("buildPrompt") /\ ~Settings.Thinking =>
        LET tf == thinkFormat(Settings)
            n == Len(tf.AssistantPrefix)
            end == Len(lastPrompt)
            lastIsUser == Messages # <<>> /\ Messages[Len(Messages)].Role = "user"
        IN /\ Settings.ThinkFormat = "&ThinkFormatGLM47" =>
                  SubSeq(lastPrompt, end - 2, end) = <<"<|assistant|>", "\n", "</think>">>
           /\ Settings.ThinkFormat = "&ThinkFormatNone" =>
                  /\ Count(lastPrompt, "/nothink") = 0
                  /\ Count(lastPrompt, "</think>") = 0
           /\ end >= n + 2
           /\ SubSeq(lastPrompt, end - n + 1, end) = tf.AssistantPrefix
           /\ SubSeq(lastPrompt, end - n - 1, end - n) = <<"<|assistant|>", "\n">>
           /\ \A i \in (end - n + 1)..end : lastPrompt[i] # "<|assistant|>"
           /\ lastIsUser =>
                  /\ end >= n + 3 + Len(tf.UserSuffix)
                  /\ SubSeq(lastPrompt, end - n - 2 - Len(tf.UserSuffix), end - n - 3)
                         = tf.UserSuffix

\* buildPrompt writes "/nothink" behind a last user turn
NoThinkPolicy == WrittenSuffix = <<"/nothink">>

\* C25: with thinking enabled the formatter writes no suffix and no prefix,
\* under every policy and for every history: the prompt is the framing alone
\* and ends with the trailing assistant delimiter and its newline. For the
\* history [user "Hello"] under the system prompt "sys" and a policy with the
\* suffix "/nothink", the prompt has "/nothink" and "</think>" once each with
\* thinking disabled and neither with thinking enabled.
C25_ThinkingEnabled ==
    /\ Formatted /\ Settings.Thinking =>
           /\ \A i \in DOMAIN lastPrompt : lastPrompt[i] \notin SuffixPieces \cup PrefixPieces
           /\ SubSeq(lastPrompt, Len(lastPrompt) - 1, Len(lastPrompt))
                  = <<"<|assistant|>", "\n">>
           /\ KnownRoles(Messages) => lastPrompt = Framing(System, Messages)
    /\ /\ Formatted
       /\ NoThinkPolicy
       /\ System = <<"s", "y", "s">>
       /\ Messages = <<Message("user", <<"H", "e", "l", "l", "o">>)>>
       => /\ Count(lastPrompt, "/nothink") = (IF Settings.Thinking THEN 0 ELSE 1)
          /\ Count(lastPrompt, "</think>") = (IF Settings.Thinking THEN 0 ELSE 1)

\* "Hello" under "sys", formatted by buildPrompt with thinking enabled
C25_Witness ==
    /\ Returned("buildPrompt")
    /\ Settings.Thinking
    /\ Settings.ThinkFormat = "&ThinkFormatGLM46"
    /\ lastPrompt = <<"[gMASK]<sop>", "<|system|>", "\n", "s", "y", "s", "\n",
                      "<|user|>", "\n", "H", "e", "l", "l", "o", "\n",
                      "<|assistant|>", "\n">>

\* C26: a Conversation whose Settings.ThinkFormat is nil is formatted under
\* ThinkFormatGLM46 when thinking is disabled: the prompt ends with that
\* policy's AssistantPrefix behind the trailing delimiter and has its
\* UserSuffix behind a last user turn. A Conversation as NewConversation
\* returns it has ThinkFormatGLM46 as effective policy, and after
\* SetThinkFormat the effective policy is the one that was given.
\* (buildPrompt writes "<think></think>\n" under a nil policy, which is
\* ThinkFormatGLM46 as the comment of the type gives it and not as it is
\* declared: see C27.)
C26_DefaultPolicy ==
    /\ /\ Returned("buildPrompt")
       /\ Settings.ThinkFormat = "nil"
       /\ ~Settings.Thinking
       => LET n == Len(ThinkFormatGLM46.AssistantPrefix)
              end == Len(lastPrompt)
              lastIsUser == Messages # <<>> /\ Messages[Len(Messages)].Role = "user"
          IN /\ n > 0
             /\ end >= n + 3
             /\ SubSeq(lastPrompt, end - n - 1, end)
                    = <<"<|assistant|>", "\n">> \o ThinkFormatGLM46.AssistantPrefix
             /\ lastIsUser =>
                    SubSeq(lastPrompt, end - n - 2 - Len(ThinkFormatGLM46.UserSuffix),
                           end - n - 3) = ThinkFormatGLM46.UserSuffix
             /\ lastIsUser => Count(lastPrompt, "/nothink") = 1
    /\ pre.op = "NewConversation" => thinkFormat(Settings) = ThinkFormatGLM46
    /\ Returned("SetThinkFormat") /\ Settings.ThinkFormat # "nil" =>
           thinkFormat(Settings) = Deref(Settings.ThinkFormat)

\* the values the three named policies are said to have
NamedPolicies ==
    [p \in {"&ThinkFormatGLM46", "&ThinkFormatGLM47", "&ThinkFormatNone"} |->
        CASE p = "&ThinkFormatGLM46" ->
               [UserSuffix |-> <<"/nothink">>,
                AssistantPrefix |-> <<"<think>", "</think>", "\n">>]
          [] p = "&ThinkFormatGLM47" ->
               [UserSuffix |-> <<"/nothink">>, AssistantPrefix |-> <<"</think>">>]
          [] p = "&ThinkFormatNone" ->
               [UserSuffix |-> <<>>, AssistantPrefix |-> <<>>]]

\* C27: the three named policies are ThinkFormatGLM46 = {"/nothink",
\* "<think></think>\n"}, ThinkFormatGLM47 = {"/nothink", "</think>"} and
\* ThinkFormatNone = {"", ""}: a Conversation whose Settings.ThinkFormat points
\* to one of them has that value as its policy, in every state.
C27_NamedPolicies ==
    Settings.ThinkFormat \in DOMAIN NamedPolicies =>
        Deref(Settings.ThinkFormat) = NamedPolicies[Settings.ThinkFormat]

\* the step is one whole call of the operation that returns at once
StepOf(name) == op = "idle" /\ op' = "idle" /\ ret'.op = name

\* the step is taken inside a call of Send, SendStreaming or a loop on them
StepOfOrchestrator ==
    op \in {"Send", "SendStreaming", "SendUntilDone", "SendStreamingUntilDone"}

\* the step is taken inside a call of SendRich or SendRichStreaming, which call
\* Send and SendStreaming
StepOfRich == Rich(op)

UsageNotDecreased ==
    /\ Usage'.InputTokens >= Usage.InputTokens
    /\ Usage'.OutputTokens >= Usage.OutputTokens

\* C29 as stated: from one state to the next neither cumulative count
\* decreases, and the counts change only inside Send, SendStreaming and the
\* loops built on them.
C29_UsageNeverDecreases ==
    [][/\ UsageNotDecreased
       /\ Usage' # Usage => StepOfOrchestrator]_vars

\* C29 as amended: Clear sets both cumulative counts to zero; in every step of
\* another operation neither count decreases, and the counts change only
\* inside Send, SendStreaming and the operations built on them: the loops,
\* SendRich and SendRichStreaming.
C29_UsageDecreasesOnlyByClear ==
    [][IF StepOf("Clear")
       THEN Usage' = [InputTokens |-> 0, OutputTokens |-> 0]
       ELSE /\ UsageNotDecreased
            /\ Usage' # Usage => (StepOfOrchestrator \/ StepOfRich)]_vars

\* Clear has run on a Conversation that had counted the tokens of more than
\* one request
C29_Witness ==
    /\ Returned("Clear")
    /\ pre.Usage.InputTokens > SomeTokens.PromptTokens
    /\ pre.Usage.OutputTokens > 0
    /\ Usage = [InputTokens |-> 0, OutputTokens |-> 0]

IsPrefix(s, t) == Len(s) <= Len(t) /\ SubSeq(t, 1, Len(s)) = s

\* the step is one by which the merge operation may act: a call of
\* MergeIfLastTwoAssistant, or a step of a loop, which calls it
StepOfMerge == StepOf("MergeIfLastTwoAssistant") \/ Looping(op)

\* C30 as stated: every step of an operation other than the merge leaves the
\* previous history as a prefix of the new history.
C30_HistoryIsPrefix ==
    [][~StepOfMerge => IsPrefix(Messages, Messages')]_vars

\* C30 as amended: Clear empties the history; a step of a loop, which calls
\* the merge, leaves every entry but the previous last one in place; every
\* step of an operation other than these and MergeIfLastTwoAssistant leaves
\* the previous history as a prefix of the new history.
C30_HistoryIsPrefixButClear ==
    [][/\ StepOf("Clear") => Messages' = <<>>
       /\ Looping(op) =>
              IsPrefix(SubSeq(Messages, 1, Len(Messages) - 1), Messages')
       /\ ~StepOfMerge /\ ~StepOf("Clear") => IsPrefix(Messages, Messages')]_vars

\* Clear has run on a history of three entries
C30_Witness ==
    /\ Returned("Clear")
    /\ Len(pre.Messages) = 3
    /\ pre.Messages[3].Role = "assistant"
    /\ Messages = <<>>

\* C31: Clear empties the history and sets both cumulative counts to zero and
\* leaves the system prompt, the settings and the credential as they were;
\* no step of any operation changes the system prompt.
C31_ClearFrame ==
    [][/\ StepOf("Clear") =>
              /\ Messages' = <<>>
              /\ Usage' = [InputTokens |-> 0, OutputTokens |-> 0]
              /\ UNCHANGED <<System, Settings, ApiToken>>
       /\ System' = System]_vars

\* Clear has run on a Conversation with a system prompt, another model than
\* the default one, a history and counted tokens
C31_Witness ==
    /\ Returned("Clear")
    /\ pre.Messages # <<>>
    /\ pre.Usage.InputTokens > 0
    /\ Messages = <<>>
    /\ Usage = [InputTokens |-> 0, OutputTokens |-> 0]
    /\ System = <<"s">>
    /\ Settings.Model = "glm-4-7"
    /\ ApiToken = "tok"

\* caller t is past the append of its reply
PastReply(t) ==
    /\ callers[t].at \in {"in_r", "in_w", "out_r", "out_w", "done"}
    /\ callers[t].r.err = NoErr

\* caller t's Send has returned without error
Succeeded(t) == callers[t].at = "done" /\ callers[t].r.err = NoErr

RECURSIVE SumOver(_, _)
SumOver(f, S) ==
    IF S = {} THEN 0
    ELSE LET x == CHOOSE y \in S : TRUE IN f[x] + SumOver(f, S \ {x})

\* C32: a Send that no other Send on the Conversation overlapped appends its
\* reply directly behind the entry that was last when it built its prompt,
\* and when no Send overlapped another the cumulative counts are the sums of
\* the counts the provider reported to the Sends that succeeded. (That
\* overlapping Sends can interleave is the witness.)
C32_SendsInTurn ==
    /\ \A t \in Callers :
           PastReply(t) /\ ~callers[t].overlapped =>
               callers[t].appended
                   = Append(callers[t].built, Message("assistant", callers[t].r.reply))
    /\ (\A t \in Callers : ~Active(t) /\ ~callers[t].overlapped) =>
           LET done == {t \in Callers : Succeeded(t)}
           IN /\ Usage.InputTokens
                     = SumOver([t \in Callers |-> callers[t].r.inputTokens], done)
              /\ Usage.OutputTokens
                     = SumOver([t \in Callers |-> callers[t].r.outputTokens], done)

\* two overlapping Sends that both succeeded: both user turns stand before
\* either reply, and the counts of one of them are lost
C32_Witness ==
    /\ \A t \in Callers : Succeeded(t) /\ callers[t].overlapped
    /\ callers[1].text = <<"h">>
    /\ callers[2].text = <<"k">>
    /\ Messages = <<Message("user", <<"h">>), Message("user", <<"k">>),
                    Message("assistant", <<"b", " ">>),
                    Message("assistant", <<"b", " ">>)>>
    /\ Usage = [InputTokens |-> SomeTokens.PromptTokens,
                OutputTokens |-> SomeTokens.CompletionTokens]

\* C33: the framing is not stored. After a Send(text) or SendStreaming(text)
\* that succeeded the history is the previous one, the user turn with exactly
\* text as content when text is not empty, and an assistant turn with exactly
\* the provider's text as content, while the prompt that was sent carried the
\* prefill and, behind a last user turn, the suffix; buildPrompt leaves the
\* history as it was.
C33_FramingNotStored ==
    /\ (Returned("Send") \/ Returned("SendStreaming")) /\ ret.err = NoErr =>
           LET given == IF pre.text # <<>> THEN <<Message("user", pre.text)>> ELSE <<>>
               asked == pre.Messages \o given
               prompt == sent[Len(sent)].req.body.Prompt
           IN /\ Messages = asked \o <<Message("assistant", calls[1].obs.text)>>
              /\ SubSeq(prompt, Len(prompt) - 2, Len(prompt))
                     = <<"<think>", "</think>", "\n">>
              /\ asked[Len(asked)].Role = "user" => Count(prompt, "/nothink") = 1
              /\ \A i \in (Len(pre.Messages) + 1)..Len(Messages) :
                     \A j \in DOMAIN Messages[i].Content :
                         Messages[i].Content[j] \notin SuffixPieces \cup PrefixPieces
    /\ Returned("buildPrompt") => Messages = pre.Messages /\ lastPrompt # <<>>

\* Send("h") has succeeded with thinking disabled: the prompt had the suffix
\* and the prefill, the history has the bare text and the bare reply
C33_Witness ==
    /\ Returned("Send")
    /\ ret.err = NoErr
    /\ ~Settings.Thinking
    /\ pre.text = <<"h">>
    /\ Count(sent[Len(sent)].req.body.Prompt, "/nothink") = 1
    /\ Count(sent[Len(sent)].req.body.Prompt, "</think>") = 1
    /\ Messages = pre.Messages \o <<Message("user", <<"h">>),
                                    Message("assistant", <<"b", " ">>)>>

\* the merge rule folded from the left over the partial replies
RECURSIVE MergeFold(_)
MergeFold(parts) ==
    IF Len(parts) = 1 THEN parts[1]
    ELSE TrimRight(MergeFold(SubSeq(parts, 1, Len(parts) - 1)), TrimRightCutset)
         \o TrimSpace(parts[Len(parts)])

\* a partial reply ends, or the one behind it begins, with whitespace the merge
\* rule trims
SeamWhitespace(parts) ==
    \E i \in 1..(Len(parts) - 1) :
        \/ parts[i] # <<>> /\ parts[i][Len(parts[i])] \in TrimRightCutset
        \/ parts[i + 1] # <<>> /\ IsSpace(parts[i + 1][1])

\* the loop was called with a text on a history not ending in two assistant turns
LoopWithText == Looping(pre.op) /\ pre.text # <<>> /\ ~LastTwoAssistant(pre.Messages)

\* C34: a loop called with non-empty text on a history that does not end with
\* two assistant turns, when it returns without error, has added exactly two
\* entries: the user turn and one assistant turn whose content is the merge
\* rule folded from the left over the partial replies. After every iteration
\* the history does not end with two assistant turns, and the assistant entry
\* is not the returned reply when there is whitespace at a seam.
C34_OneMergedTurn ==
    LoopWithText =>
        /\ op = "idle" /\ ret.err = NoErr =>
               /\ Messages = pre.Messages \o
                      <<Message("user", pre.text),
                        Message("assistant", MergeFold(PartialReplies))>>
               /\ SeamWhitespace(PartialReplies) =>
                      Messages[Len(Messages)].Content # ret.reply
        /\ calls # <<>> /\ calls[Len(calls)].err = NoErr =>
               ~LastTwoAssistant(Messages)

\* SendUntilDone("h") returned after three calls: one assistant entry, shorter
\* than the reply returned
C34_Witness ==
    /\ Returned("SendUntilDone") /\ ret.err = NoErr
    /\ pre.text = <<"h">>
    /\ Len(calls) = 3
    /\ Len(Messages) = Len(pre.Messages) + 2
    /\ PartialReplies = << <<"b", " ">>, <<" ", "c">>, <<"b", " ">> >>
    /\ Messages[Len(Messages)].Content = <<"b", "c", "b">>
    /\ ret.reply = <<"b", " ", " ", "c", "b", " ">>

\* the underlying calls of the operation that returned without error
SucceededCalls == {i \in 1..Len(calls) : calls[i].err = NoErr}

\* C35: the token totals a loop returns are the sums of the counts of its
\* underlying calls that succeeded, and are what the cumulative counts of the
\* Conversation grew by during the call, whether the loop ends normally or
\* with an error.
C35_LoopTotals ==
    Returned("SendUntilDone") \/ Returned("SendStreamingUntilDone") =>
        /\ ret.inputTokens
               = SumOver([i \in 1..Len(calls) |-> calls[i].inputTokens], SucceededCalls)
        /\ ret.outputTokens
               = SumOver([i \in 1..Len(calls) |-> calls[i].outputTokens], SucceededCalls)
        /\ ret.inputTokens = Usage.InputTokens - pre.Usage.InputTokens
        /\ ret.outputTokens = Usage.OutputTokens - pre.Usage.OutputTokens

\* SendUntilDone ended with the error of its third call, after two calls that
\* each counted tokens
C35_Witness ==
    /\ Returned("SendUntilDone")
    /\ ret.err # NoErr
    /\ Len(calls) = 3
    /\ calls[1].inputTokens = SomeTokens.PromptTokens
    /\ calls[2].inputTokens = SomeTokens.PromptTokens
    /\ ret.inputTokens = 2 * SomeTokens.PromptTokens
    /\ ret.outputTokens = 2 * SomeTokens.CompletionTokens
    /\ Usage.InputTokens = pre.Usage.InputTokens + ret.inputTokens

\* every underlying call so far returned "max_tokens" without error
AllTruncated ==
    \A i \in 1..Len(calls) : calls[i].err = NoErr /\ calls[i].stopReason = "max_tokens"

\* C36: a loop has returned exactly when an underlying call has returned an
\* error or a stop reason other than "max_tokens"; as long as every call
\* returns "max_tokens" it is still running, however many calls that is, with
\* one assistant entry behind the user turn that holds the merged replies;
\* and when the provider at some point answers otherwise, the loop returns.
C36_LoopEnds ==
    /\ [](Looping(pre.op) =>
              /\ op = "idle" <=> (calls # <<>> /\ ~AllTruncated)
              /\ /\ op # "idle"
                 /\ calls # <<>>
                 /\ pre.text # <<>>
                 => Messages = pre.Messages \o
                        <<Message("user", pre.text),
                          Message("assistant", MergeFold(PartialReplies))>>)
    /\ (Looping(op) ~> op = "idle")

\* a loop still running after as many truncated calls as the provider gives
\* in a row
C36_Witness ==
    /\ op = "SendUntilDone"
    /\ pc = "call"
    /\ Len(calls) = MaxConts
    /\ AllTruncated
    /\ pre.text # <<>>
    /\ Len(Messages) = Len(pre.Messages) + 2

\* how often the callback was told that the stream is done
DoneCount == Cardinality({i \in 1..Len(cblog) : cblog[i][2]})

\* SendStreaming has returned after a response with status 200, whose stream
\* it read
ReadStream ==
    /\ Returned("SendStreaming")
    /\ sent # <<>>
    /\ sent[Len(sent)].resp.transport = "ok"
    /\ sent[Len(sent)].resp.status = StatusOK

\* C37: when the stream ends without a [DONE] line and without a read error,
\* SendStreaming returns the accumulated text and the stop reason without
\* error, appends the text as an assistant turn, counts its tokens and never
\* tells the callback that the stream is done. For every stream the callback
\* is told so at most once, and once only if [DONE] was read.
C37_EndWithoutDone ==
    ReadStream =>
        LET body == sent[Len(sent)].resp.body
            given == IF pre.text # <<>> THEN <<Message("user", pre.text)>> ELSE <<>>
        IN /\ ~HasDone(body.lines) /\ ~body.readErr =>
                  /\ ret.err = NoErr
                  /\ ret.reply = StreamText(body.lines)
                  /\ ret.stopReason = StopReasonTable(StreamFinish(body.lines, ""))
                  /\ Messages = pre.Messages \o given
                                    \o <<Message("assistant", StreamText(body.lines))>>
                  /\ Usage.OutputTokens
                         = pre.Usage.OutputTokens + EstimateOf(Len(ret.reply))
                  /\ DoneCount = 0
           /\ DoneCount <= 1
           /\ DoneCount = 1 => HasDone(body.lines)
           /\ pre.callback /\ HasDone(body.lines) => DoneCount = 1

\* a stream of one chunk that ends without [DONE], read with a callback
C37_Witness ==
    /\ ReadStream
    /\ pre.callback
    /\ sent[Len(sent)].resp.body
           = [lines |-> <<OtherLine, DataLine(<<" ", "c">>, Null)>>, readErr |-> FALSE]
    /\ ret.err = NoErr
    /\ ret.reply = <<" ", "c">>
    /\ cblog = << <<<<" ", "c">>, FALSE>> >>
    /\ Messages[Len(Messages)] = Message("assistant", <<" ", "c">>)

\* the underlying calls of the operation whose stream reached [DONE]
DoneCalls == {i \in 1..Len(calls) : calls[i].done}

\* C38: SendStreamingUntilDone hands its callback to every underlying call, so
\* the callback is told that the stream is done once per underlying request
\* that reaches [DONE], and the non-empty increments it was given over the
\* whole call, joined in order, are the reply the call returns.
C38_DonePerRequest ==
    Returned("SendStreamingUntilDone") /\ pre.callback =>
        /\ DoneCount = Cardinality(DoneCalls)
        /\ Increments = ret.reply

\* C39: after a Send with text that failed past the credential check the user
\* turn is left in the history; a following Send without input that succeeds
\* leaves it there once, directly followed by the reply, and a following Send
\* of the same text that succeeds leaves two consecutive copies of it before
\* the reply.
C39_RetryAfterFailure ==
    Returned("Send") /\ ret.err = NoErr /\ pre.retry.set =>
        LET turn == Message("user", pre.retry.text)
            answer == Message("assistant", ret.reply)
        IN /\ pre.Messages = Append(pre.retry.Messages, turn)
           /\ pre.text = <<>> => Messages = pre.retry.Messages \o <<turn, answer>>
           /\ pre.text = pre.retry.text =>
                  Messages = pre.retry.Messages \o <<turn, turn, answer>>

C39_Witness ==
    /\ Returned("Send")
    /\ ret.err = NoErr
    /\ pre.retry.set
    /\ pre.text = <<>>
    /\ pre.retry.Messages # <<>>
    /\ Len(Messages) = Len(pre.retry.Messages) + 2

\* the entries of a history under one of the three roles the format knows
Known(msgs) == SelectSeq(msgs, LAMBDA m : m.Role \in {"user", "assistant", "system"})

\* C40: AddMessage puts one entry, whatever its role, behind the history and
\* changes nothing else of the Conversation; buildPrompt writes nothing for an
\* entry under a role other than user, assistant and system, and when the
\* history ends with such an entry (thinking disabled) no user turn gets the
\* suffix while the prefill is written behind the trailing assistant delimiter.
C40_AnyRole ==
    [][/\ StepOf("AddMessage") =>
              /\ Len(Messages') = Len(Messages) + 1
              /\ IsPrefix(Messages, Messages')
              /\ UNCHANGED <<System, Usage, ApiToken, Settings>>
       /\ StepOf("buildPrompt") =>
              LET prompt == lastPrompt'
                  prefill == IF Settings.Thinking THEN <<>>
                             ELSE <<"<think>", "</think>", "\n">>
                  framed == SubSeq(prompt, 1, Len(prompt) - Len(prefill))
                  lastUnknown == /\ Messages # <<>>
                                 /\ Messages[Len(Messages)].Role
                                        \notin {"user", "assistant", "system"}
              IN /\ SelectSeq(framed, LAMBDA piece : piece \notin SuffixPieces)
                        = Framing(System, Known(Messages))
                 /\ SubSeq(prompt, Len(framed) + 1, Len(prompt)) = prefill
                 /\ lastUnknown =>
                        /\ framed = Framing(System, Known(Messages))
                        /\ \A i \in DOMAIN prompt : prompt[i] \notin SuffixPieces]_vars

\* a user turn and an entry under the role "tool" behind it, formatted with
\* thinking disabled: no block for the entry, no suffix, the prefill
C40_Witness ==
    /\ Returned("buildPrompt")
    /\ ~Settings.Thinking
    /\ System = <<>>
    /\ Messages = <<Message("user", <<"H", "e", "l", "l", "o">>), Message("tool", <<"t">>)>>
    /\ lastPrompt = <<"[gMASK]<sop>", "<|user|>", "\n", "H", "e", "l", "l", "o", "\n",
                      "<|assistant|>", "\n", "<think>", "</think>", "\n">>
====
